---- MODULE Spec2Model ----
(***************************************************************************)
(* Model of the Pixiboo button dispatcher (src/pixiboo/buttons.py):        *)
(* debounced polling (_pressed, update), the falling-edge interrupt        *)
(* handler, callback registration and interrupt arming; and of the         *)
(* accelerometer (src/pixiboo/accelerometer.py): the I2C bus probing of    *)
(* its constructor, the shake detector was_shaken and the on_shake loop.   *)
(***************************************************************************)
EXTENDS Integers, Sequences, FiniteSets, TLC

\* ------------------------------------------------------------------ bounds
\* the clock runs from 0 to MaxTime; debounce_ms is scaled down to
\* DebounceMs; at most MaxRegs callbacks are registered in one run
MaxTime == 6
DebounceMs == 2
MaxRegs == 2
\* at most MaxHops idle periods pass in a run on the wrapping clock
MaxHops == 3
\* _shake_debounce_ms and the 50 ms sleep of the on_shake loop, scaled down
ShakeDebounceMs == 2
SleepMs == 1
\* the number of quiet calls before the spike in the test sequence
QuietCalls == 10
\* the calls of init_accelerometer() a run makes
MaxAttempts == 2
\* the calls of calibrate() a run makes
MaxCalibrations == 2

\* --------------------------------------------------------------- constants
Buttons == {"left", "center", "right"}
ButtonOrder == <<"left", "center", "right">>
Names == Buttons \cup {"other"}
\* user callbacks: "f" returns normally, "g" raises an Exception
Callback == {"f", "g"}
Raising == {"g"}
\* callbacks that call on_button_pressed on their own button when they run
Registering == {"r", "s"}
\* the period of the wrapping millisecond counter behind ticks_ms
TicksPeriod == 1073741824
\* the threshold a new Accelerometer has, and the default of on_shake
DefaultThresholdMg == 1500
\* _sleep_ms(1000) before the first bus is opened, _sleep_ms(20) after
\* each I2C(...) call
BootWaitMs == 1000
SettleMs == 20
\* the (bus id, frequency) pairs __init__ tries, in its order
Candidates == <<[bus |-> 0, freq |-> 100000], [bus |-> 0, freq |-> 400000],
                [bus |-> 1, freq |-> 100000]>>
\* what scan() may return: nothing, a BNO055 (0x28 or 0x29), an MPU6050
\* (0x68), a BNO055 beside an MPU6050, a device of another kind (0x3C)
Scans == {{}, {40}, {41}, {104}, {41, 104}, {60}}
\* the thresholds the program sets
Thresholds == {1000, DefaultThresholdMg}

VARIABLES
    now,          \* the millisecond clock read by _ticks_ms()
    pin,          \* electrical level of each button pin (pull-up: 0 = pressed)
    auto_update,  \* Buttons.auto_update
    last_state,   \* Buttons._last_state
    last_time,    \* Buttons._last_time
    callbacks,    \* Buttons._callbacks
    irq_enabled,  \* Buttons._irq_enabled
    handlers,     \* pins on which pin.irq(...) installed a handler
    pc,           \* where the main context stands inside _pressed ("idle": outside)
    frame,        \* the locals of the _pressed call in progress
    ev,           \* the last operation and what it reported
    active,       \* the button the user operates in this run
    sinceChange,  \* history: ms since the last level change, capped at DebounceMs
    spaced,       \* history: all level changes so far >= DebounceMs apart
    phase,        \* history: none / fresh (pressed, not polled) / sampled
    pressTrue,    \* history: polls that returned True during this press
    pressDisp,    \* history: callback dispatches during this press
    sinceReport,  \* history: ms since the last report (capped), -1: none yet
    elapsed,      \* history: real ms since _last_time of the operated button
                  \*          was written (capped at one clock period)
    hops,         \* history: the idle periods so far
    bpc,          \* where Accelerometer.__init__ stands
    cand,         \* the bus candidate __init__ is trying (index in Candidates)
    i2c,          \* Accelerometer._i2c: 0 is None, else the candidate's index
    devices,      \* the local `devices` of __init__: the last scan result
    blog,         \* the bus operations and sleeps of __init__, in order
    shake_threshold,  \* Accelerometer._shake_threshold
    shake_detected,   \* Accelerometer._shake_detected
    last_shake_time,  \* Accelerometer._last_shake_time
    loop,         \* the on_shake call in progress: its position and callback
    script,       \* history: how far the calls follow "quiet, one spike, quiet"
    trueAt,       \* history: the places of that sequence that returned True
    spikeTime,    \* history: the clock at the spike call, -1: none yet
    sinceShake,   \* history: ms since was_shaken last returned True, -1: never
    shakes,       \* history: calls of was_shaken that returned True (capped)
    burst,        \* history: the unbroken run of readings above the threshold
    imu_type,     \* Accelerometer._imu_type ("": None)
    addr,         \* Accelerometer._addr (0: None)
    bno,          \* _init_bno055: its locals timeout and chip_id, and the
                  \* number of chip-ID reads it made
    error,        \* the exception that ended __init__ ("": none)
    handle,       \* pixiboo.accelerometer: "none" or "object"
    attempt,      \* the number of Accelerometer() calls started
    offset,       \* Accelerometer._offset_x, _offset_y, _offset_z
    xyz,          \* Accelerometer._x, _y, _z
    cal,          \* calibrate() in progress: samples taken and their sums
    calSeen,      \* history: the sum and the set of the readings the IMU
                  \*          gave the last calibrate(), the calls made
    sincePoll,    \* history: ms since the last debounced poll of the operated
                  \*          button, or since Buttons() (capped)
    polled,       \* history: the operated button was polled
    fast,         \* history: "all": every poll came < DebounceMs after the
                  \*          one before and the first < DebounceMs after
                  \*          Buttons(); "later": all but the first; else "no"
    sinceDispatch \* history: ms since the last dispatch for the operated
                  \*          button (capped), -1: none yet

vars == <<now, pin, auto_update, last_state, last_time, callbacks,
          irq_enabled, handlers, pc, frame, ev, active, sinceChange, spaced,
          phase, pressTrue, pressDisp, sinceReport, elapsed, hops, bpc, cand, i2c,
          devices, blog, shake_threshold, shake_detected, last_shake_time,
          loop, script, trueAt, spikeTime, sinceShake, shakes, burst,
          imu_type, addr,
          bno, error, handle, attempt, offset, xyz, cal, calSeen, sincePoll,
          polled, fast, sinceDispatch>>

dispatcher == <<last_state, last_time, callbacks, irq_enabled>>
main == <<pc, frame>>
history == <<sinceChange, spaced, phase, pressTrue, pressDisp, sinceReport>>
bringup == <<bpc, cand, i2c, devices, blog>>
shake == <<shake_threshold, shake_detected, last_shake_time, loop>>
wrapHistory == <<elapsed, hops>>
shakeHistory == <<script, trueAt, spikeTime, sinceShake, shakes, burst>>
detect == <<imu_type, addr, bno, error, handle, attempt>>
reading == <<offset, xyz, cal>>
pollHistory == <<sincePoll, polled, fast, sinceDispatch>>

\* ------------------------------------------------------------ pure helpers
Half == TicksPeriod \div 2

\* utime.ticks_diff: signed difference of two wrapping tick values
TicksDiff(a, b) == ((a - b + Half) % TicksPeriod) - Half

Cap2(n) == IF n >= 2 THEN 2 ELSE n
CapD(n) == IF n >= DebounceMs THEN DebounceMs ELSE n

Total(cbs) == Len(cbs["left"]) + Len(cbs["center"]) + Len(cbs["right"])

\* the record of an operation: its name and argument, the buttons it
\* reported, the callbacks it ran, whether an exception escaped, the level
\* is_pressed returned, the pins that got a handler, the failing pin.irq
\* the result of was_shaken, the reading it saw, the threshold argument,
\* whether the I2C read raised
NoEv == [op |-> "none", btn |-> "", rep |-> {}, ran |-> <<>>,
         exc |-> FALSE, held |-> FALSE, inst |-> {}, fail |-> 0,
         shaken |-> FALSE, xyz |-> <<0, 0, 0>>, th |-> 0, io |-> FALSE,
         data |-> <<>>]

BNO055_ADDR == 40
BNO055_ADDR_ALT == 41
MPU6050_ADDR == 104
MPU6050_ADDR_ALT == 105
LSM6DS3_ADDR == 106
BNO055_ID == 160
ChipIdTimeoutMs == 850
ChipIdRetryMs == 10
ChipIdLastWaitMs == 100
WakeMs == 10
Samples == 10
CalSleepMs == 10
Gravity == 1000

\* _init_bno055 has not run; calibrate() is not running
NoBno == [timeout |-> 0, chip_id |-> 0, reads |-> 0, writes |-> 0]
NoCal == [i |-> 0, sum |-> <<0, 0, 0>>]
NoSeen == [sum |-> <<0, 0, 0>>, seen |-> {}, calls |-> 0]

\* no on_shake call is in progress
NoLoop == [pc |-> "off", cb |-> ""]

NoFrame == [name |-> "", caller |-> "", idx |-> 0, value |-> 1, t |-> 0,
            res |-> FALSE]

\* (mutant) a poll that rewrites the time only when it returns True
PressedStepKeepsTime(ls, lt, value, t) ==
    IF value = 0 /\ ls = 1 /\ TicksDiff(t, lt) >= DebounceMs
    THEN [res |-> TRUE, last_state |-> value, last_time |-> t]
    ELSE [res |-> FALSE, last_state |-> value, last_time |-> lt]

\* the debounce decision of _pressed for one button
PressedStep(ls, lt, value, t) ==
    IF value = 0 /\ ls = 1 /\ TicksDiff(t, lt) >= DebounceMs
    THEN [res |-> TRUE, last_state |-> value, last_time |-> t]
    ELSE [res |-> FALSE, last_state |-> value, last_time |-> t]

\* (mutant) a handler without the debounce check
HandlerStepNoWindow(lt, t) == [disp |-> TRUE, last_time |-> t]

\* (mutant) a handler that stamps the time before its debounce check
HandlerStepStampsFirst(lt, t) ==
    IF TicksDiff(t, lt) < DebounceMs
    THEN [disp |-> FALSE, last_time |-> t]
    ELSE [disp |-> TRUE, last_time |-> t]

\* the debounce decision of the interrupt handler for one button
HandlerStep(lt, t) ==
    IF TicksDiff(t, lt) < DebounceMs
    THEN [disp |-> FALSE, last_time |-> lt]
    ELSE [disp |-> TRUE, last_time |-> t]

\* (mutant) a callback called outside any try block
InvokeUnguarded(c) == [raised |-> c \in Raising, escaped |-> c \in Raising]

\* try: callback()  except Exception: ...   (the exception never escapes)
InvokeGuarded(c) == [raised |-> c \in Raising, escaped |-> FALSE]

\* what a running callback registers on its own button with
\* on_button_pressed: "r" registers "f", "s" registers itself; the lists of
\* the model hold at most MaxRegs entries, so a callback registers nothing
\* into a full list
Adds(c, cbs) ==
    IF c \in Registering /\ Len(cbs) < MaxRegs
    THEN <<IF c = "r" THEN "f" ELSE c>>
    ELSE <<>>

\* (mutant) the callbacks run last registered first
RunCallbacksReversed(b, cbs, i) ==
    [ran |-> [k \in 1..Len(cbs) |-> <<b, cbs[Len(cbs) + 1 - k]>>],
     exc |-> FALSE, cbs |-> cbs]

\* for callback in self._callbacks[name]: try: callback() except ...
\* The loop walks the list itself: what a callback appends to it is reached
\* by the same loop.  cbs: the list as it is when entry i is about to run
RECURSIVE RunCallbacks(_, _, _)
RunCallbacks(b, cbs, i) ==
    IF i > Len(cbs) THEN [ran |-> <<>>, exc |-> FALSE, cbs |-> cbs]
    ELSE LET r == InvokeGuarded(cbs[i])
             now_cbs == cbs \o Adds(cbs[i], cbs)
         IN IF r.escaped
            THEN [ran |-> << <<b, cbs[i]>> >>, exc |-> TRUE, cbs |-> now_cbs]
            ELSE LET rest == RunCallbacks(b, now_cbs, i + 1)
                 IN [ran |-> << <<b, cbs[i]>> >> \o rest.ran,
                     exc |-> rest.exc, cbs |-> rest.cbs]

\* update(): for name in self._pins: if self._pressed(name): dispatch
RECURSIVE UpdateFrom(_, _)
UpdateFrom(i, st) ==
    IF i > Len(ButtonOrder) \/ st.exc THEN st
    ELSE LET b == ButtonOrder[i]
             p == PressedStep(st.ls[b], st.lt[b], pin[b], now)
             r == IF p.res THEN RunCallbacks(b, st.cbs[b], 1)
                  ELSE [ran |-> <<>>, exc |-> FALSE, cbs |-> st.cbs[b]]
         IN UpdateFrom(i + 1,
               [ls |-> [st.ls EXCEPT ![b] = p.last_state],
                lt |-> [st.lt EXCEPT ![b] = p.last_time],
                cbs |-> [st.cbs EXCEPT ![b] = r.cbs],
                rep |-> IF p.res THEN st.rep \cup {b} ELSE st.rep,
                ran |-> st.ran \o r.ran,
                exc |-> r.exc])

\* ------------------------------------------------------------------ Init
\* Buttons.__init__ at clock value t with the buttons released; no
\* Accelerometer has been constructed yet (pixiboo.accelerometer is None)
\* and the first Accelerometer() call is about to run
InitAt(t) ==
    /\ now = t
    /\ active \in Buttons
    /\ pin = [b \in Buttons |-> 1]
    /\ auto_update \in BOOLEAN
    /\ last_state = pin
    /\ last_time = [b \in Buttons |-> now]
    /\ callbacks = [b \in Buttons |-> <<>>]
    /\ irq_enabled = FALSE
    /\ handlers = {}
    /\ pc = "idle"
    /\ frame = NoFrame
    /\ ev = NoEv
    /\ sinceChange = 0
    /\ spaced = TRUE
    /\ phase = "none"
    /\ pressTrue = 0
    /\ pressDisp = 0
    /\ sinceReport = -1
    /\ elapsed = 0
    /\ hops = 0
    /\ bpc = "new"
    /\ cand = 0
    /\ i2c = 0
    /\ devices = {}
    /\ blog = <<>>
    /\ shake_threshold = 0
    /\ shake_detected = FALSE
    /\ last_shake_time = 0
    /\ loop = NoLoop
    /\ script = 0
    /\ trueAt = {}
    /\ spikeTime = -1
    /\ sinceShake = -1
    /\ shakes = 0
    /\ burst = "fresh"
    /\ imu_type = ""
    /\ addr = 0
    /\ bno = NoBno
    /\ error = ""
    /\ handle = "none"
    /\ attempt = 1
    /\ offset = <<0, 0, 0>>
    /\ xyz = <<0, 0, 0>>
    /\ cal = NoCal
    /\ calSeen = NoSeen
    /\ sincePoll = 0
    /\ polled = FALSE
    /\ fast = "all"
    /\ sinceDispatch = -1

\* the package is imported when the clock starts
Init == InitAt(0)

\* --------------------------------------------------------------- actions
\* one millisecond passes
Tick ==
    /\ now < MaxTime
    /\ now' = (now + 1) % TicksPeriod
    /\ ev' = [NoEv EXCEPT !.op = "tick"]
    /\ UNCHANGED <<pin, auto_update, dispatcher, handlers, main, active>>

\* the button is released (rising edge: no interrupt is triggered)
Release(b) ==
    /\ pin[b] = 0
    /\ pin' = [pin EXCEPT ![b] = 1]
    /\ ev' = [NoEv EXCEPT !.op = "release", !.btn = b]
    /\ UNCHANGED <<now, auto_update, dispatcher, handlers, main, active>>

\* the button goes down (falling edge); an installed handler runs
Press(b) ==
    /\ pin[b] = 1
    /\ pin' = [pin EXCEPT ![b] = 0]
    /\ IF b \in handlers
       THEN LET h == HandlerStep(last_time[b], now)
                r == IF h.disp THEN RunCallbacks(b, callbacks[b], 1)
                     ELSE [ran |-> <<>>, exc |-> FALSE, cbs |-> callbacks[b]]
            IN /\ last_time' = [last_time EXCEPT ![b] = h.last_time]
               /\ callbacks' = [callbacks EXCEPT ![b] = r.cbs]
               /\ ev' = [NoEv EXCEPT !.op = "irq", !.btn = b,
                            !.rep = IF h.disp THEN {b} ELSE {},
                            !.ran = r.ran, !.exc = r.exc]
       ELSE /\ ev' = [NoEv EXCEPT !.op = "press", !.btn = b]
            /\ UNCHANGED <<last_time, callbacks>>
    /\ UNCHANGED <<now, auto_update, last_state, irq_enabled, handlers, main,
                   active>>

\* (mutant) a poll that keeps one transition time for all the buttons
PollSharedTime(b) ==
    LET p == PressedStep(last_state[b], last_time[b], pin[b], now)
    IN /\ pc = "idle"
       /\ last_state' = [last_state EXCEPT ![b] = p.last_state]
       /\ last_time' = [o \in Buttons |-> p.last_time]
       /\ ev' = [NoEv EXCEPT !.op = "poll", !.btn = b,
                             !.rep = IF p.res THEN {b} ELSE {}]
       /\ UNCHANGED <<now, pin, auto_update, callbacks, irq_enabled, handlers,
                      main, active>>

\* left_pressed() / center_pressed() / right_pressed(), run as one step
Poll(b) ==
    LET p == PressedStep(last_state[b], last_time[b], pin[b], now)
    IN /\ pc = "idle"
       /\ last_state' = [last_state EXCEPT ![b] = p.last_state]
       /\ last_time' = [last_time EXCEPT ![b] = p.last_time]
       /\ ev' = [NoEv EXCEPT !.op = "poll", !.btn = b,
                             !.rep = IF p.res THEN {b} ELSE {}]
       /\ UNCHANGED <<now, pin, auto_update, callbacks, irq_enabled, handlers,
                      main, active>>

\* update(), run as one step
Update ==
    LET st == UpdateFrom(1, [ls |-> last_state, lt |-> last_time,
                             cbs |-> callbacks, rep |-> {}, ran |-> <<>>,
                             exc |-> FALSE])
    IN /\ pc = "idle"
       /\ last_state' = st.ls
       /\ last_time' = st.lt
       /\ callbacks' = st.cbs
       /\ ev' = [NoEv EXCEPT !.op = "update", !.btn = "all", !.rep = st.rep,
                             !.ran = st.ran, !.exc = st.exc]
       /\ UNCHANGED <<now, pin, auto_update, irq_enabled, handlers, main,
                      active>>

\* (mutant) an is_pressed that records the level it read
IsPressedLatching(n) ==
    /\ ev' = [NoEv EXCEPT !.op = "is_pressed", !.btn = n,
                 !.held = IF n \notin Buttons THEN FALSE ELSE pin[n] = 0]
    /\ last_state' = IF n \in Buttons THEN [last_state EXCEPT ![n] = pin[n]]
                     ELSE last_state
    /\ UNCHANGED <<now, pin, auto_update, last_time, callbacks, irq_enabled,
                   handlers, main, active>>

\* is_pressed(button)
IsPressed(n) ==
    /\ ev' = [NoEv EXCEPT !.op = "is_pressed", !.btn = n,
                 !.held = IF n \notin Buttons THEN FALSE ELSE pin[n] = 0]
    /\ UNCHANGED <<now, pin, auto_update, dispatcher, handlers, main, active>>

\* (mutant) arming that installs a handler on the first pin only
SetupInterruptsFirstPinOnly(fail) ==
    IF irq_enabled THEN [inst |-> {}, enabled |-> irq_enabled]
    ELSE IF fail = 1 THEN [inst |-> {}, enabled |-> FALSE]
    ELSE [inst |-> {ButtonOrder[1]}, enabled |-> TRUE]

\* (mutant) arming that sets the flag before it installs the handlers
SetupInterruptsFlagFirst(fail) ==
    IF irq_enabled THEN [inst |-> {}, enabled |-> irq_enabled]
    ELSE IF fail = 0 THEN [inst |-> Buttons, enabled |-> TRUE]
    ELSE [inst |-> {ButtonOrder[i] : i \in 1..(fail - 1)}, enabled |-> TRUE]

\* _setup_interrupts(); pin.irq raises on the fail-th pin (0: none raises)
SetupInterrupts(fail) ==
    IF irq_enabled THEN [inst |-> {}, enabled |-> irq_enabled]
    ELSE IF fail = 0 THEN [inst |-> Buttons, enabled |-> TRUE]
    ELSE [inst |-> {ButtonOrder[i] : i \in 1..(fail - 1)}, enabled |-> FALSE]

\* (mutant) a registration that skips a callback already in the list
AddCallbackOnce(cbs, c) ==
    IF \E i \in DOMAIN cbs : cbs[i] = c THEN cbs ELSE Append(cbs, c)

\* self._callbacks[button].append(callback)
AddCallback(cbs, c) == Append(cbs, c)

\* on_button_pressed(button, callback)
Register(n, c, fail) ==
    /\ n \in Buttons => Total(callbacks) < MaxRegs
    /\ IF n \notin Buttons
       THEN /\ ev' = [NoEv EXCEPT !.op = "register", !.btn = n]
            /\ UNCHANGED <<callbacks, irq_enabled, handlers>>
       ELSE LET s == IF auto_update /\ ~irq_enabled
                     THEN SetupInterrupts(fail)
                     ELSE [inst |-> {}, enabled |-> irq_enabled]
            IN /\ callbacks' = [callbacks EXCEPT ![n] = AddCallback(@, c)]
               /\ irq_enabled' = s.enabled
               /\ handlers' = handlers \cup s.inst
               /\ ev' = [NoEv EXCEPT !.op = "register", !.btn = n,
                            !.inst = s.inst,
                            !.fail = IF auto_update /\ ~irq_enabled
                                     THEN fail ELSE 0]
    /\ UNCHANGED <<now, pin, auto_update, last_state, last_time, main, active>>

\* ------------------------------------- _pressed and update(), step by step
Step == [NoEv EXCEPT !.op = "step"]

\* a *_pressed() call enters _pressed(b)
PollCall(b) ==
    /\ pc = "idle"
    /\ pc' = "pin"
    /\ frame' = [NoFrame EXCEPT !.name = b, !.caller = "poll"]
    /\ ev' = Step
    /\ UNCHANGED <<now, pin, auto_update, dispatcher, handlers, active>>

\* update() enters _pressed for the first button of its loop
UpdateCall ==
    /\ pc = "idle"
    /\ pc' = "pin"
    /\ frame' = [NoFrame EXCEPT !.name = ButtonOrder[1], !.caller = "update",
                                !.idx = 1]
    /\ ev' = Step
    /\ UNCHANGED <<now, pin, auto_update, dispatcher, handlers, active>>

\* value = pin.value()
ReadPin ==
    /\ pc = "pin"
    /\ pc' = "clock"
    /\ frame' = [frame EXCEPT !.value = pin[frame.name]]
    /\ ev' = Step
    /\ UNCHANGED <<now, pin, auto_update, dispatcher, handlers, active>>

\* now = _ticks_ms()
ReadClock ==
    /\ pc = "clock"
    /\ pc' = "cmp"
    /\ frame' = [frame EXCEPT !.t = now]
    /\ ev' = Step
    /\ UNCHANGED <<now, pin, auto_update, dispatcher, handlers, active>>

\* the if condition of _pressed
Compare ==
    /\ pc = "cmp"
    /\ pc' = "wstate"
    /\ frame' = [frame EXCEPT !.res =
                    PressedStep(last_state[frame.name], last_time[frame.name],
                                frame.value, frame.t).res]
    /\ ev' = Step
    /\ UNCHANGED <<now, pin, auto_update, dispatcher, handlers, active>>

\* self._last_state[name] = value
WriteState ==
    /\ pc = "wstate"
    /\ pc' = "wtime"
    /\ last_state' = [last_state EXCEPT ![frame.name] = frame.value]
    /\ ev' = Step
    /\ UNCHANGED <<now, pin, auto_update, last_time, callbacks, irq_enabled,
                   handlers, frame, active>>

\* self._last_time[name] = now; return; update() dispatches and goes on
WriteTime ==
    /\ pc = "wtime"
    /\ last_time' = [last_time EXCEPT ![frame.name] = frame.t]
    /\ IF frame.caller = "poll"
       THEN /\ ev' = [NoEv EXCEPT !.op = "poll", !.btn = frame.name,
                         !.rep = IF frame.res THEN {frame.name} ELSE {}]
            /\ pc' = "idle"
            /\ frame' = NoFrame
            /\ UNCHANGED callbacks
       ELSE LET r == IF frame.res
                     THEN RunCallbacks(frame.name, callbacks[frame.name], 1)
                     ELSE [ran |-> <<>>, exc |-> FALSE,
                           cbs |-> callbacks[frame.name]]
                more == frame.idx < Len(ButtonOrder) /\ ~r.exc
            IN /\ callbacks' = [callbacks EXCEPT ![frame.name] = r.cbs]
               /\ ev' = [NoEv EXCEPT !.op = "update", !.btn = frame.name,
                            !.rep = IF frame.res THEN {frame.name} ELSE {},
                            !.ran = r.ran, !.exc = r.exc]
               /\ pc' = IF more THEN "pin" ELSE "idle"
               /\ frame' = IF more
                           THEN [NoFrame EXCEPT
                                   !.name = ButtonOrder[frame.idx + 1],
                                   !.caller = "update", !.idx = frame.idx + 1]
                           ELSE NoFrame
    /\ UNCHANGED <<now, pin, auto_update, last_state, irq_enabled, handlers,
                   active>>

\* -------------------------------------- Accelerometer.__init__: the bus
\* the shake detector and the buttons are not touched
BusFrame == UNCHANGED <<pin, auto_update, dispatcher, handlers, main, active,
                        shake, imu_type, addr, bno, handle, attempt, reading>>

BusStep == [NoEv EXCEPT !.op = "bring_up"]

\* an entry of the log: a sleep, an I2C(...) call, a scan() or the raise
LogSleep(ms) == [k |-> "sleep", bus |-> -1, freq |-> 0, ok |-> TRUE,
                 res |-> {}, ms |-> ms, reg |-> 0, val |-> 0]
LogOpen(c, ok) == [k |-> "open", bus |-> Candidates[c].bus,
                   freq |-> Candidates[c].freq, ok |-> ok, res |-> {},
                   ms |-> 0, reg |-> 0, val |-> 0]
LogScan(c, res, ok) == [k |-> "scan", bus |-> Candidates[c].bus,
                        freq |-> Candidates[c].freq, ok |-> ok, res |-> res,
                        ms |-> 0, reg |-> 0, val |-> 0]
LogRaise == [k |-> "raise", bus |-> -1, freq |-> 0, ok |-> FALSE, res |-> {},
             ms |-> 0, reg |-> 0, val |-> 0]

\* (mutant) a fallback loop that ends with the error of _detect_imu
NextCandidateNoDevice(c) ==
    IF c < Len(Candidates)
    THEN [bpc |-> "open", cand |-> c + 1, i2c |-> 0, log |-> <<>>,
          error |-> ""]
    ELSE [bpc |-> "failed", cand |-> c, i2c |-> 0, log |-> <<LogRaise>>,
          error |-> "no_device"]

\* candidate c gave no bus: the fallback loop goes on, and after the last
\* candidate __init__ raises "no working configuration found"
NextCandidate(c) ==
    IF c < Len(Candidates)
    THEN [bpc |-> "open", cand |-> c + 1, i2c |-> 0, log |-> <<>>,
          error |-> ""]
    ELSE [bpc |-> "failed", cand |-> c, i2c |-> 0, log |-> <<LogRaise>>,
          error |-> "no_bus"]

\* (mutant) a probe that keeps a bus whose scan found nothing
AfterScanKeepsEmpty(c, res, ok) ==
    IF ok
    THEN [bpc |-> "detect", cand |-> c, i2c |-> c, log |-> <<>>,
          error |-> ""]
    ELSE NextCandidate(c)

\* devices = self._i2c.scan(); if devices: keep the bus  else / except:
\* self._i2c = None
AfterScan(c, res, ok) ==
    IF ok /\ res # {}
    THEN [bpc |-> "detect", cand |-> c, i2c |-> c, log |-> <<>>,
          error |-> ""]
    ELSE NextCandidate(c)

\* _sleep_ms(1000) at the start of __init__
BootWait ==
    /\ bpc = "new"
    /\ now' = (now + BootWaitMs) % TicksPeriod
    /\ bpc' = "open"
    /\ cand' = 1
    /\ blog' = Append(blog, LogSleep(BootWaitMs))
    /\ ev' = BusStep
    /\ UNCHANGED <<i2c, devices, error>>
    /\ BusFrame

\* self._i2c = I2C(id, scl=..., sda=..., freq=...); ok = FALSE: it raises
OpenBus(ok) ==
    /\ bpc = "open"
    /\ LET n == IF ok
                THEN [bpc |-> "settle", cand |-> cand, i2c |-> cand,
                      log |-> <<>>, error |-> ""]
                ELSE NextCandidate(cand)
       IN /\ bpc' = n.bpc
          /\ cand' = n.cand
          /\ i2c' = n.i2c
          /\ blog' = Append(blog, LogOpen(cand, ok)) \o n.log
          /\ error' = n.error
    /\ ev' = BusStep
    /\ UNCHANGED <<now, devices>>
    /\ BusFrame

\* _sleep_ms(20) after the bus was opened
Settle ==
    /\ bpc = "settle"
    /\ now' = (now + SettleMs) % TicksPeriod
    /\ bpc' = "scan"
    /\ blog' = Append(blog, LogSleep(SettleMs))
    /\ ev' = BusStep
    /\ UNCHANGED <<cand, i2c, devices, error>>
    /\ BusFrame

\* devices = self._i2c.scan() and what __init__ does with the result;
\* ok = FALSE: scan() raises
ScanBus(res, ok) ==
    /\ bpc = "scan"
    /\ LET n == AfterScan(cand, res, ok)
       IN /\ bpc' = n.bpc
          /\ cand' = n.cand
          /\ i2c' = n.i2c
          /\ blog' = Append(blog, LogScan(cand, IF ok THEN res ELSE {}, ok))
                         \o n.log
          /\ error' = n.error
    /\ devices' = IF ok THEN res ELSE devices
    /\ ev' = BusStep
    /\ UNCHANGED now
    /\ BusFrame

\* ------------------------------ Accelerometer.__init__: detection and init
\* the buttons, the on_shake loop and the package's handle are not touched
DetectFrame == UNCHANGED <<pin, auto_update, dispatcher, handlers, main,
                           active, loop, handle, attempt, cal, cand, i2c>>

\* what the second scan of the bus may return
DetectScans ==
    Scans \cup {{MPU6050_ADDR_ALT}, {LSM6DS3_ADDR},
                {BNO055_ADDR, LSM6DS3_ADDR},
                {MPU6050_ADDR_ALT, LSM6DS3_ADDR}, {60, LSM6DS3_ADDR}}

\* what a read of the chip-ID register may return
ChipIds == {BNO055_ID, 255}

\* a register write in the log
LogWrite(reg, val, ok) ==
    [k |-> "write", bus |-> -1, freq |-> 0, ok |-> ok, res |-> {}, ms |-> 0,
     reg |-> reg, val |-> val]

\* the five writes of _init_bno055 and the sleep after each:
\* OPR_MODE = CONFIG, PWR_MODE = NORMAL, PAGE_ID = 0, SYS_TRIGGER = 0,
\* OPR_MODE = NDOF
BnoWrites ==
    <<[reg |-> 61, val |-> 0, ms |-> 25], [reg |-> 62, val |-> 0, ms |-> 10],
      [reg |-> 7, val |-> 0, ms |-> 10], [reg |-> 63, val |-> 0, ms |-> 10],
      [reg |-> 61, val |-> 12, ms |-> 20]>>

\* the write of _init_mpu6050 (PWR_MGMT_1 = 0) and of _init_lsm6ds3
\* (CTRL1_XL = 0x40)
MpuWrite == [reg |-> 107, val |-> 0, ms |-> WakeMs]
LsmWrite == [reg |-> 16, val |-> 64, ms |-> WakeMs]

\* (mutant) a chain that does not know the alternate BNO055 address
SelectPrimaryOnly(res) ==
    IF BNO055_ADDR \in res
    THEN [addr |-> BNO055_ADDR, imu |-> "bno055"]
    ELSE IF MPU6050_ADDR \in res
    THEN [addr |-> MPU6050_ADDR, imu |-> "mpu6050"]
    ELSE IF MPU6050_ADDR_ALT \in res
    THEN [addr |-> MPU6050_ADDR_ALT, imu |-> "mpu6050"]
    ELSE IF LSM6DS3_ADDR \in res
    THEN [addr |-> LSM6DS3_ADDR, imu |-> "lsm6ds3"]
    ELSE [addr |-> 0, imu |-> ""]

\* the if / elif chain of _detect_imu over a non-empty scan; imu = "": the
\* else branch
Select(res) ==
    IF BNO055_ADDR \in res
    THEN [addr |-> BNO055_ADDR, imu |-> "bno055"]
    ELSE IF BNO055_ADDR_ALT \in res
    THEN [addr |-> BNO055_ADDR_ALT, imu |-> "bno055"]
    ELSE IF MPU6050_ADDR \in res
    THEN [addr |-> MPU6050_ADDR, imu |-> "mpu6050"]
    ELSE IF MPU6050_ADDR_ALT \in res
    THEN [addr |-> MPU6050_ADDR_ALT, imu |-> "mpu6050"]
    ELSE IF LSM6DS3_ADDR \in res
    THEN [addr |-> LSM6DS3_ADDR, imu |-> "lsm6ds3"]
    ELSE [addr |-> 0, imu |-> ""]

\* the object's fields are left as they are
KeepObject ==
    UNCHANGED <<shake_threshold, shake_detected, last_shake_time, offset,
                xyz>>

\* the tail of __init__ after _detect_imu returned
Defaults ==
    /\ offset' = <<0, 0, 0>>
    /\ xyz' = <<0, 0, 0>>
    /\ shake_threshold' = DefaultThresholdMg
    /\ shake_detected' = FALSE
    /\ last_shake_time' = 0

\* __init__ ends with exception kind
Raise(kind, log) ==
    /\ bpc' = "failed"
    /\ error' = kind
    /\ blog' = blog \o log \o <<LogRaise>>
    /\ KeepObject

\* (mutant) a detection that takes an unknown device for no device
DetectNoUnknown(res, ok) ==
    /\ bpc = "detect"
    /\ LET s == Select(res)
           scan == <<LogScan(i2c, IF ok THEN res ELSE {}, ok)>>
       IN IF ~ok
          THEN Raise("io", scan) /\ UNCHANGED <<now, imu_type, addr, bno>>
          ELSE IF res = {} \/ s.imu = ""
          THEN Raise("no_device", scan)
               /\ UNCHANGED <<now, imu_type, addr, bno>>
          ELSE /\ addr' = s.addr
               /\ imu_type' = s.imu
               /\ bpc' = IF s.imu = "bno055" THEN "bno_poll"
                         ELSE IF s.imu = "mpu6050" THEN "mpu_init"
                         ELSE "lsm_init"
               /\ bno' = IF s.imu = "bno055"
                         THEN [NoBno EXCEPT !.timeout = ChipIdTimeoutMs]
                         ELSE bno
               /\ blog' = blog \o scan
               /\ KeepObject
               /\ UNCHANGED <<now, error>>
    /\ devices' = IF ok THEN res ELSE devices
    /\ ev' = BusStep
    /\ DetectFrame

\* _detect_imu up to the call of the init protocol: the second scan, the
\* two errors and the choice of the device; ok = FALSE: scan() raises
Detect(res, ok) ==
    /\ bpc = "detect"
    /\ LET s == Select(res)
           scan == <<LogScan(i2c, IF ok THEN res ELSE {}, ok)>>
       IN IF ~ok
          THEN Raise("io", scan) /\ UNCHANGED <<now, imu_type, addr, bno>>
          ELSE IF res = {}
          THEN Raise("no_device", scan)
               /\ UNCHANGED <<now, imu_type, addr, bno>>
          ELSE IF s.imu = ""
          THEN Raise("unknown_device", scan)
               /\ UNCHANGED <<now, imu_type, addr, bno>>
          ELSE /\ addr' = s.addr
               /\ imu_type' = s.imu
               /\ bpc' = IF s.imu = "bno055" THEN "bno_poll"
                         ELSE IF s.imu = "mpu6050" THEN "mpu_init"
                         ELSE "lsm_init"
               /\ bno' = IF s.imu = "bno055"
                         THEN [NoBno EXCEPT !.timeout = ChipIdTimeoutMs]
                         ELSE bno
               /\ blog' = blog \o scan
               /\ KeepObject
               /\ UNCHANGED <<now, error>>
    /\ devices' = IF ok THEN res ELSE devices
    /\ ev' = BusStep
    /\ DetectFrame

\* one register write w of an init protocol and the sleep after it; last:
\* the protocol and with it __init__ is complete.  ok = FALSE: writeto_mem
\* raises
InitWrite(w, ok, last) ==
    IF ok
    THEN /\ now' = (now + w.ms) % TicksPeriod
         /\ blog' = blog \o <<LogWrite(w.reg, w.val, TRUE), LogSleep(w.ms)>>
         /\ bpc' = IF last THEN "built" ELSE bpc
         /\ IF last THEN Defaults ELSE KeepObject
         /\ UNCHANGED error
    ELSE /\ Raise("io", <<LogWrite(w.reg, w.val, FALSE)>>)
         /\ UNCHANGED now

\* _init_mpu6050 and the tail of __init__
InitMpu6050(ok) ==
    /\ bpc = "mpu_init"
    /\ InitWrite(MpuWrite, ok, TRUE)
    /\ ev' = BusStep
    /\ UNCHANGED <<devices, imu_type, addr, bno>>
    /\ DetectFrame

\* _init_lsm6ds3 and the tail of __init__
InitLsm6ds3(ok) ==
    /\ bpc = "lsm_init"
    /\ InitWrite(LsmWrite, ok, TRUE)
    /\ ev' = BusStep
    /\ UNCHANGED <<devices, imu_type, addr, bno>>
    /\ DetectFrame

\* (mutant) a poll loop that never gives up
AfterPollNoBudget(t, v, ok) ==
    IF ok /\ v = BNO055_ID
    THEN [bpc |-> "bno_write", timeout |-> t, ms |-> 0]
    ELSE [bpc |-> "bno_poll", timeout |-> t, ms |-> ChipIdRetryMs]

\* one turn of   while timeout > 0:   with t the timeout left: break on a
\* match, else sleep, count down and leave the loop when the budget is spent
AfterPoll(t, v, ok) ==
    IF ok /\ v = BNO055_ID
    THEN [bpc |-> "bno_write", timeout |-> t, ms |-> 0]
    ELSE [bpc |-> IF t - ChipIdRetryMs > 0 THEN "bno_poll" ELSE "bno_last",
          timeout |-> t - ChipIdRetryMs, ms |-> ChipIdRetryMs]

\* a turn of the poll loop of _init_bno055: the read of the chip ID gives v
\* or, ok = FALSE, raises (swallowed)
ChipIdPoll(v, ok) ==
    /\ bpc = "bno_poll"
    /\ LET n == AfterPoll(bno.timeout, v, ok)
       IN /\ bpc' = n.bpc
          /\ bno' = [bno EXCEPT !.timeout = n.timeout,
                                !.chip_id = IF ok THEN v ELSE @,
                                !.reads = @ + 1]
          /\ now' = (now + n.ms) % TicksPeriod
    /\ ev' = BusStep
    /\ KeepObject
    /\ UNCHANGED <<devices, imu_type, addr, error, blog>>
    /\ DetectFrame

\* (mutant) a last read whose result is not looked at
AfterLastReadUnchecked(v, ok) == IF ok THEN "" ELSE "not_responding"

\* the error the last read ends with ("": none)
AfterLastRead(v, ok) ==
    IF ~ok THEN "not_responding"
    ELSE IF v # BNO055_ID THEN "wrong_chip_id" ELSE ""

\* (mutant) a last read that turns to the MPU6050 of the scan when the
\* BNO055 does not answer
ChipIdLastFallsBack(v, ok) ==
    /\ bpc = "bno_last"
    /\ now' = (now + ChipIdLastWaitMs) % TicksPeriod
    /\ bno' = [bno EXCEPT !.chip_id = IF ok THEN v ELSE @, !.reads = @ + 1]
    /\ LET e == AfterLastRead(v, ok)
       IN IF e # "" /\ MPU6050_ADDR \in devices
          THEN /\ bpc' = "mpu_init"
               /\ imu_type' = "mpu6050"
               /\ addr' = MPU6050_ADDR
               /\ KeepObject
               /\ UNCHANGED <<error, blog>>
          ELSE IF e # ""
          THEN Raise(e, <<>>) /\ UNCHANGED <<imu_type, addr>>
          ELSE /\ bpc' = "bno_write"
               /\ KeepObject
               /\ UNCHANGED <<error, blog, imu_type, addr>>
    /\ ev' = BusStep
    /\ UNCHANGED devices
    /\ DetectFrame

\* the last read after the loop ran out: _sleep_ms(100), one read, and the
\* two errors
ChipIdLast(v, ok) ==
    /\ bpc = "bno_last"
    /\ now' = (now + ChipIdLastWaitMs) % TicksPeriod
    /\ bno' = [bno EXCEPT !.chip_id = IF ok THEN v ELSE @, !.reads = @ + 1]
    /\ LET e == AfterLastRead(v, ok)
       IN IF e # ""
          THEN Raise(e, <<>>)
          ELSE /\ bpc' = "bno_write"
               /\ KeepObject
               /\ UNCHANGED <<error, blog>>
    /\ ev' = BusStep
    /\ UNCHANGED <<devices, imu_type, addr>>
    /\ DetectFrame

\* the next register write of _init_bno055; after the fifth, the tail of
\* __init__
BnoWrite(ok) ==
    /\ bpc = "bno_write"
    /\ InitWrite(BnoWrites[bno.writes + 1], ok,
                 bno.writes + 1 = Len(BnoWrites))
    /\ bno' = IF ok THEN [bno EXCEPT !.writes = @ + 1] ELSE bno
    /\ ev' = BusStep
    /\ UNCHANGED <<devices, imu_type, addr>>
    /\ DetectFrame

\* ------------------------------------------- pixiboo.init_accelerometer
UpFrame == UNCHANGED <<pin, auto_update, dispatcher, handlers, main, active,
                       shake, reading, now>>

\* accelerometer = Accelerometer(); return accelerometer
InitAccelerometerReturns ==
    /\ bpc = "built"
    /\ bpc' = "ready"
    /\ handle' = "object"
    /\ ev' = [NoEv EXCEPT !.op = "init_accelerometer"]
    /\ UNCHANGED <<cand, i2c, devices, blog, imu_type, addr, bno, error,
                   attempt>>
    /\ UpFrame

\* (mutant) an except branch that keeps the handle it had
InitAccelerometerFailsKeepsHandle ==
    /\ bpc = "failed"
    /\ bpc' = "returned"
    /\ ev' = [NoEv EXCEPT !.op = "init_accelerometer"]
    /\ UNCHANGED <<cand, i2c, devices, blog, imu_type, addr, bno, error,
                   attempt, handle>>
    /\ UpFrame

\* except Exception as err: accelerometer = None; return None
InitAccelerometerFails ==
    /\ bpc = "failed"
    /\ bpc' = "returned"
    /\ handle' = "none"
    /\ ev' = [NoEv EXCEPT !.op = "init_accelerometer"]
    /\ UNCHANGED <<cand, i2c, devices, blog, imu_type, addr, bno, error,
                   attempt>>
    /\ UpFrame

\* init_accelerometer() called again: a new Accelerometer() starts
InitAccelerometer ==
    /\ bpc \in {"returned", "ready"} /\ loop.pc = "off"
    /\ attempt < MaxAttempts
    /\ bpc' = "new"
    /\ cand' = 0
    /\ i2c' = 0
    /\ devices' = {}
    /\ blog' = <<>>
    /\ imu_type' = ""
    /\ addr' = 0
    /\ bno' = NoBno
    /\ error' = ""
    /\ attempt' = attempt + 1
    /\ ev' = [NoEv EXCEPT !.op = "init_accelerometer_call"]
    /\ UNCHANGED handle
    /\ UpFrame

\* ------------------------------------------- reading and calibration
ReadFrame == UNCHANGED <<pin, auto_update, dispatcher, handlers, main, active,
                         bringup, detect, shake>>

\* int(x) of a quotient n / d: towards zero
Trunc(n, d) == IF n >= 0 THEN n \div d ELSE 0 - ((0 - n) \div d)

\* (mutant) every device taken to send the low byte first
WordLowFirst(kind, b0, b1) == b1 * 256 + b0

\* the 16-bit word of an axis from its two bytes in the order they were
\* read: (data[0] << 8) | data[1] for the MPU6050, (data[1] << 8) | data[0]
\* for the LSM6DS3 and the BNO055
Word(kind, b0, b1) ==
    IF kind = "mpu6050" THEN b0 * 256 + b1 ELSE b1 * 256 + b0

\* if x > 32767: x -= 65536
Signed(x) == IF x > 32767 THEN x - 65536 ELSE x

\* int(x * 0.122) for the MPU6050 and the LSM6DS3, int(x * 1.02) for the
\* BNO055; on every 16-bit x the float product truncates to the same
\* integer as the exact quotient
ScaleMg(kind, x) ==
    IF kind = "bno055" THEN Trunc(x * 1020, 1000) ELSE Trunc(x * 122, 1000)

Axis(kind, b0, b1) == ScaleMg(kind, Signed(Word(kind, b0, b1)))

\* _read_raw() on the six bytes data the device sent
ReadRaw(kind, data) ==
    <<Axis(kind, data[1], data[2]), Axis(kind, data[3], data[4]),
      Axis(kind, data[5], data[6])>>

Minus(r, o) == <<r[1] - o[1], r[2] - o[2], r[3] - o[3]>>
Plus(r, o) == <<r[1] + o[1], r[2] + o[2], r[3] + o[3]>>

\* get_values(); ok = FALSE: the I2C read raises
GetValues(data, ok) ==
    /\ bpc = "ready" /\ loop.pc = "off" /\ cal.i = 0
    /\ IF ok
       THEN LET r == ReadRaw(imu_type, data)
            IN /\ xyz' = r
               /\ ev' = [NoEv EXCEPT !.op = "get_values", !.data = data,
                                     !.xyz = Minus(r, offset)]
       ELSE /\ ev' = [NoEv EXCEPT !.op = "get_values", !.exc = TRUE,
                                  !.io = TRUE]
            /\ UNCHANGED xyz
    /\ UNCHANGED <<now, offset, cal>>
    /\ ReadFrame

\* (mutant) a calibration that samples the calibrated reading
CalSampleCalibrated(r) == Minus(r, offset)

\* x, y, z = self._read_raw()   in calibrate()
CalSample(r) == r

\* (mutant) a calibration that leaves gravity in the Z offset
OffsetsOfPlainMean(sum) ==
    <<sum[1] \div Samples, sum[2] \div Samples, sum[3] \div Samples>>

\* the offsets calibrate() stores for the sums of its samples
OffsetsOf(sum) ==
    <<sum[1] \div Samples, sum[2] \div Samples,
      sum[3] \div Samples - Gravity>>

\* one turn of the loop of calibrate(): a read, the sums, _sleep_ms(10);
\* the first turn is the call, the tenth also stores the offsets.
\* ok = FALSE: the I2C read raises and the exception leaves calibrate()
CalibrateSample(data, ok) ==
    /\ bpc = "ready" /\ loop.pc = "off"
    /\ IF ok
       THEN LET r == ReadRaw(imu_type, data)
                sum == Plus(cal.sum, CalSample(r))
            IN /\ now' = (now + CalSleepMs) % TicksPeriod
               /\ IF cal.i + 1 = Samples
                  THEN offset' = OffsetsOf(sum) /\ cal' = NoCal
                  ELSE /\ cal' = [i |-> cal.i + 1, sum |-> sum]
                       /\ UNCHANGED offset
               /\ ev' = [NoEv EXCEPT !.op = "calibrate", !.data = data,
                                     !.xyz = r]
       ELSE /\ cal' = NoCal
            /\ ev' = [NoEv EXCEPT !.op = "calibrate", !.exc = TRUE,
                                  !.io = TRUE]
            /\ UNCHANGED <<now, offset>>
    /\ UNCHANGED xyz
    /\ ReadFrame

\* ------------------------------------------------------ the shake detector
\* the buttons and the constructor of the accelerometer are not touched
ShakeFrame == UNCHANGED <<pin, auto_update, dispatcher, handlers, main, active,
                          bringup, detect, offset, cal>>

\* the raw reading behind the calibrated reading r of get_values()
Raw(r) == <<r[1] + offset[1], r[2] + offset[2], r[3] + offset[3]>>

\* magnitude_squared = x * x + y * y + z * z
MagnitudeSquared(r) == r[1] * r[1] + r[2] * r[2] + r[3] * r[3]

\* the calibrated readings get_values() returns, by the current threshold:
\* at rest, exactly on the threshold, just above it, both axes below it but
\* the vector above it, and a spike of twice the threshold
Readings(th) ==
    {<<0, 0, 0>>, <<th, 0, 0>>, <<th, 1, 0>>, <<th - 1, th - 1, 0>>,
     <<0, 0 - 2 * th, 0>>}

\* (mutant) a detector that arms on a reading equal to the threshold
ShakeStepInclusive(th, lst, det, r, t) ==
    LET arm == /\ MagnitudeSquared(r) >= th * th
               /\ TicksDiff(t, lst) >= ShakeDebounceMs
    IN [res |-> det \/ arm, armed |-> arm, detected |-> FALSE,
        last_shake_time |-> IF arm THEN t ELSE lst]

\* (mutant) a detector without the debounce window
ShakeStepNoWindow(th, lst, det, r, t) ==
    LET arm == MagnitudeSquared(r) > th * th
    IN [res |-> det \/ arm, armed |-> arm, detected |-> FALSE,
        last_shake_time |-> IF arm THEN t ELSE lst]

\* (mutant) a detector that returns the flag as it was before the call
ShakeStepDeferred(th, lst, det, r, t) ==
    LET arm == /\ MagnitudeSquared(r) > th * th
               /\ TicksDiff(t, lst) >= ShakeDebounceMs
    IN [res |-> det, armed |-> arm, detected |-> arm,
        last_shake_time |-> IF arm THEN t ELSE lst]

\* (mutant) a detector that returns the flag without clearing it
ShakeStepKeepsFlag(th, lst, det, r, t) ==
    LET arm == /\ MagnitudeSquared(r) > th * th
               /\ TicksDiff(t, lst) >= ShakeDebounceMs
    IN [res |-> det \/ arm, armed |-> arm, detected |-> det \/ arm,
        last_shake_time |-> IF arm THEN t ELSE lst]

\* was_shaken after get_values() returned r at clock t: the arming
\* decision, the result and the fields it leaves behind
ShakeStep(th, lst, det, r, t) ==
    LET arm == /\ MagnitudeSquared(r) > th * th
               /\ TicksDiff(t, lst) >= ShakeDebounceMs
    IN [res |-> det \/ arm, armed |-> arm, detected |-> FALSE,
        last_shake_time |-> IF arm THEN t ELSE lst]

\* was_shaken() called by the program; ok = FALSE: the I2C read of
\* get_values() raises and the exception leaves was_shaken
WasShaken(r, ok) ==
    /\ bpc = "ready" /\ loop.pc = "off"
    /\ IF ok
       THEN LET w == ShakeStep(shake_threshold, last_shake_time,
                               shake_detected, r, now)
            IN /\ shake_detected' = w.detected
               /\ last_shake_time' = w.last_shake_time
               /\ xyz' = Raw(r)
               /\ ev' = [NoEv EXCEPT !.op = "was_shaken", !.xyz = r,
                                     !.shaken = w.res]
       ELSE /\ ev' = [NoEv EXCEPT !.op = "was_shaken", !.exc = TRUE,
                                  !.io = TRUE]
            /\ UNCHANGED <<shake_detected, last_shake_time, xyz>>
    /\ UNCHANGED <<now, shake_threshold, loop>>
    /\ ShakeFrame

\* (mutant) a setter that also forgets the time of the last shake
SetShakeThresholdReset(t) ==
    /\ bpc = "ready" /\ loop.pc = "off"
    /\ shake_threshold' = t
    /\ last_shake_time' = 0
    /\ ev' = [NoEv EXCEPT !.op = "set_shake_threshold", !.th = t]
    /\ UNCHANGED <<now, shake_detected, loop, xyz>>
    /\ ShakeFrame

\* set_shake_threshold(threshold_mg)
SetShakeThreshold(t) ==
    /\ bpc = "ready" /\ loop.pc = "off"
    /\ shake_threshold' = t
    /\ ev' = [NoEv EXCEPT !.op = "set_shake_threshold", !.th = t]
    /\ UNCHANGED <<now, shake_detected, last_shake_time, loop, xyz>>
    /\ ShakeFrame

\* (mutant) the callback of on_shake called outside any try block
InvokeShakeCallbackUnguarded(c) ==
    [raised |-> c \in Raising, escaped |-> c \in Raising]

\* try: callback()  except Exception as e: print(...)   in the on_shake loop
InvokeShakeCallback(c) == [raised |-> c \in Raising, escaped |-> FALSE]

\* on_shake(callback, threshold_mg) up to the start of its loop, with the
\* accelerometer of the package already constructed
OnShake(c, t) ==
    /\ bpc = "ready" /\ loop.pc = "off"
    /\ shake_threshold' = IF t # DefaultThresholdMg THEN t ELSE shake_threshold
    /\ loop' = [pc |-> "poll", cb |-> c]
    /\ ev' = [NoEv EXCEPT !.op = "on_shake", !.th = t]
    /\ UNCHANGED <<now, shake_detected, last_shake_time, xyz>>
    /\ ShakeFrame

\* if acc.was_shaken(): try: callback() ...   (one turn of the loop); the
\* was_shaken call is outside the try, so a raising read ends on_shake
LoopPoll(r, ok) ==
    /\ loop.pc = "poll"
    /\ IF ok
       THEN LET w == ShakeStep(shake_threshold, last_shake_time,
                               shake_detected, r, now)
                c == IF w.res THEN InvokeShakeCallback(loop.cb)
                     ELSE [raised |-> FALSE, escaped |-> FALSE]
            IN /\ shake_detected' = w.detected
               /\ last_shake_time' = w.last_shake_time
               /\ xyz' = Raw(r)
               /\ loop' = [loop EXCEPT !.pc = IF c.escaped THEN "raised"
                                              ELSE "sleep"]
               /\ ev' = [NoEv EXCEPT !.op = "on_shake_poll", !.xyz = r,
                            !.shaken = w.res,
                            !.ran = IF w.res THEN << <<"shake", loop.cb>> >>
                                    ELSE <<>>,
                            !.exc = c.escaped]
       ELSE /\ loop' = [loop EXCEPT !.pc = "raised"]
            /\ ev' = [NoEv EXCEPT !.op = "on_shake_poll", !.exc = TRUE,
                                  !.io = TRUE]
            /\ UNCHANGED <<shake_detected, last_shake_time, xyz>>
    /\ UNCHANGED <<now, shake_threshold>>
    /\ ShakeFrame

\* _sleep_ms(50) at the end of a turn of the loop
LoopSleep ==
    /\ loop.pc = "sleep"
    /\ now + SleepMs <= MaxTime
    /\ now' = (now + SleepMs) % TicksPeriod
    /\ loop' = [loop EXCEPT !.pc = "poll"]
    /\ ev' = [NoEv EXCEPT !.op = "sleep"]
    /\ UNCHANGED <<shake_threshold, shake_detected, last_shake_time, xyz>>
    /\ ShakeFrame

\* --------------------------------------------------------------- history
\* what the step just taken adds to the history of the operated button
EdgeOps == {"press", "irq", "release"}
PollOps == {"poll", "update"}

Polled(e) == e.op \in PollOps /\ e.btn \in {active, "all"}
Reported(e) == active \in e.rep

ObserveEdges ==
    /\ sinceChange' = IF ev'.op \in EdgeOps THEN 0
                      ELSE IF ev'.op = "tick" THEN CapD(sinceChange + 1)
                      ELSE sinceChange
    /\ spaced' = IF ev'.op \in EdgeOps
                 THEN spaced /\ sinceChange >= DebounceMs
                 ELSE spaced

ObservePolls ==
    /\ phase' = IF ev'.op = "release" THEN "none"
                ELSE IF ev'.op \in EdgeOps THEN "fresh"
                ELSE IF Polled(ev') /\ pin[active] = 0 /\ phase = "fresh"
                THEN "sampled"
                ELSE phase
    /\ pressTrue' = IF ev'.op \in {"press", "irq"} THEN 0
                    ELSE IF Polled(ev') /\ Reported(ev')
                    THEN Cap2(pressTrue + 1)
                    ELSE pressTrue

ObserveDispatches ==
    pressDisp' = IF ev'.op = "press" THEN 0
                 ELSE IF ev'.op = "irq" THEN (IF Reported(ev') THEN 1 ELSE 0)
                 ELSE IF ev'.op = "update" /\ Reported(ev')
                 THEN Cap2(pressDisp + 1)
                 ELSE pressDisp

ObserveReports ==
    sinceReport' = IF ev'.op \in {"irq", "poll", "update"} /\ Reported(ev')
                   THEN 0
                   ELSE IF ev'.op = "tick" /\ sinceReport # -1
                   THEN CapD(sinceReport + 1)
                   ELSE sinceReport

Observe == ObserveEdges /\ ObservePolls /\ ObserveDispatches /\ ObserveReports

\* the gaps between the debounced polls of the operated button, and the
\* time since the callbacks of the button were last dispatched
ObservePollGaps ==
    /\ sincePoll' = IF Polled(ev') THEN 0
                    ELSE IF ev'.op = "tick" THEN CapD(sincePoll + 1)
                    ELSE sincePoll
    /\ polled' = (polled \/ Polled(ev'))
    /\ fast' = IF Polled(ev') /\ sincePoll >= DebounceMs
               THEN (IF polled THEN "no" ELSE "later")
               ELSE fast
    /\ sinceDispatch' = IF ev'.op \in {"irq", "update"} /\ Reported(ev')
                        THEN 0
                        ELSE IF ev'.op = "tick" /\ sinceDispatch # -1
                        THEN CapD(sinceDispatch + 1)
                        ELSE sinceDispatch

ObservePolling ==
    /\ ObserveEdges /\ ObservePollGaps
    /\ UNCHANGED <<phase, pressTrue, pressDisp, sinceReport>>

\* only the dispatches of the current press are recorded
ObserveIrq ==
    /\ ObserveDispatches
    /\ UNCHANGED <<sinceChange, spaced, phase, pressTrue, sinceReport>>

\* --- the history of the was_shaken calls
ShakeOps == {"was_shaken", "on_shake_poll"}

\* a call of was_shaken that returned
Called(e) == e.op \in ShakeOps /\ ~e.exc
Quiet(e) == MagnitudeSquared(e.xyz) = 0
Spike(e) == MagnitudeSquared(e.xyz) = 4 * shake_threshold * shake_threshold

\* the place of a call in the sequence: QuietCalls calls at rest, one call
\* at twice the threshold, then calls at rest; -1: another sequence
ScriptNext(e) ==
    IF script = -1 \/ e.exc THEN -1
    ELSE IF script < QuietCalls THEN (IF Quiet(e) THEN script + 1 ELSE -1)
    ELSE IF script = QuietCalls THEN (IF Spike(e) THEN script + 1 ELSE -1)
    ELSE IF Quiet(e) THEN QuietCalls + 2 ELSE -1

Place(p) ==
    IF p <= QuietCalls THEN "quiet"
    ELSE IF p = QuietCalls + 1 THEN "spike"
    ELSE "next"

ObserveScript ==
    /\ script' = IF ev'.op \in ShakeOps THEN ScriptNext(ev') ELSE script
    /\ trueAt' = IF ev'.op \in ShakeOps /\ ev'.shaken /\ script' # -1
                 THEN trueAt \cup {IF script = QuietCalls + 2 THEN "later"
                                   ELSE Place(script')}
                 ELSE trueAt
    /\ spikeTime' = IF ev'.op \in ShakeOps /\ script' = QuietCalls + 1
                    THEN now ELSE spikeTime

\* the run of consecutive calls whose readings are all above the threshold:
\* "fresh" while no call has read above it since construction; "none" when
\* the last call read at or below it, raised, or the threshold was set
\* since; otherwise whether the first call of the run returned True
Above(e) == MagnitudeSquared(e.xyz) > shake_threshold * shake_threshold

BurstNext(e) ==
    IF e.op \notin ShakeOps \cup {"set_shake_threshold", "on_shake"}
    THEN burst
    ELSE IF e.op \notin ShakeOps \/ e.exc \/ ~Above(e)
    THEN (IF burst = "fresh" THEN "fresh" ELSE "none")
    ELSE IF burst \in {"fresh", "none"}
    THEN (IF e.shaken THEN "reported" ELSE "silent")
    ELSE burst

CapS(n) == IF n >= ShakeDebounceMs THEN ShakeDebounceMs ELSE n

ObserveShaken ==
    /\ sinceShake' = IF ev'.op \in ShakeOps /\ ev'.shaken THEN 0
                     ELSE IF sinceShake = -1 THEN -1
                     ELSE IF ev'.op = "tick" THEN CapS(sinceShake + 1)
                     ELSE IF ev'.op = "sleep" THEN CapS(sinceShake + SleepMs)
                     ELSE sinceShake
    /\ shakes' = IF ev'.op \in ShakeOps /\ ev'.shaken THEN Cap2(shakes + 1)
                 ELSE shakes
    /\ burst' = BurstNext(ev')

\* the buttons are not touched (the clock and ev are shared)
ButtonsIdle ==
    UNCHANGED <<pin, auto_update, dispatcher, handlers, main, active, history,
                wrapHistory, pollHistory>>

\* the accelerometer is not touched
AccelOff ==
    UNCHANGED <<wrapHistory, bringup, shake, shakeHistory, detect, reading,
                calSeen>>
AccelIdle == AccelOff /\ UNCHANGED pollHistory

\* -------------------------------------------------------- specifications
\* Spec: one operated button over MaxTime milliseconds, polled and
\* interrupt-driven, every call run as one step, with a well-behaved
\* callback registered on the button.
Next ==
    \/ Tick /\ Observe /\ AccelIdle
    \/ Release(active) /\ Observe /\ AccelIdle
    \/ Press(active) /\ Observe /\ AccelIdle
    \/ Poll(active) /\ Observe /\ AccelIdle
    \/ Update /\ Observe /\ AccelIdle
    \/ \E n \in Names : IsPressed(n) /\ Observe /\ AccelIdle
    \/ Register(active, "f", 0) /\ Observe /\ AccelIdle

Spec == Init /\ [][Next]_vars

\* SpecPoll: the main program polls the operated button with *_pressed()
\* and update() while the button is pressed and released and, once a
\* callback is registered, its interrupt handler runs.
NextPoll ==
    \/ Tick /\ ObservePolling /\ AccelOff
    \/ Release(active) /\ ObservePolling /\ AccelOff
    \/ Press(active) /\ ObservePolling /\ AccelOff
    \/ Poll(active) /\ ObservePolling /\ AccelOff
    \/ Update /\ ObservePolling /\ AccelOff
    \/ Register(active, "f", 0) /\ ObservePolling /\ AccelOff

SpecPoll == Init /\ [][NextPoll]_vars

\* SpecReg: every registration (any name, any callback, a failing pin.irq)
\* and every dispatch of the registered callbacks, over the time of one
\* debounce window and one millisecond more.
MaxTimeReg == DebounceMs + 1

TickReg == now < MaxTimeReg /\ Tick

NextReg ==
    \/ TickReg /\ UNCHANGED history /\ AccelIdle
    \/ Release(active) /\ UNCHANGED history /\ AccelIdle
    \/ Press(active) /\ UNCHANGED history /\ AccelIdle
    \/ Update /\ UNCHANGED history /\ AccelIdle
    \/ \E n \in Names, c \in Callback, fail \in 0..3 :
          Register(n, c, fail) /\ UNCHANGED history /\ AccelIdle

SpecReg == Init /\ [][NextReg]_vars

\* SpecNest: among the callbacks registered are some that call
\* on_button_pressed on their own button while they run.  Every
\* registration arms the interrupts at once (no pin.irq raises), so a
\* registration made by a running callback finds them armed or, with
\* auto_update off, leaves them alone.
NextNest ==
    \/ TickReg /\ UNCHANGED history /\ AccelIdle
    \/ Release(active) /\ UNCHANGED history /\ AccelIdle
    \/ Press(active) /\ UNCHANGED history /\ AccelIdle
    \/ Update /\ UNCHANGED history /\ AccelIdle
    \/ \E c \in {"f"} \cup Registering :
          Register(active, c, 0) /\ UNCHANGED history /\ AccelIdle

SpecNest == Init /\ [][NextNest]_vars

\* SpecIrq: the main context runs _pressed one statement at a time and the
\* interrupt handler (in Press) may run between any two of them.
MaxTimeIrq == 2 * DebounceMs

TickIrq == now < MaxTimeIrq /\ Tick

NextIrq ==
    \/ TickIrq /\ ObserveIrq /\ AccelIdle
    \/ Release(active) /\ ObserveIrq /\ AccelIdle
    \/ Press(active) /\ ObserveIrq /\ AccelIdle
    \/ Register(active, "f", 0) /\ ObserveIrq /\ AccelIdle
    \/ PollCall(active) /\ ObserveIrq /\ AccelIdle
    \/ UpdateCall /\ ObserveIrq /\ AccelIdle
    \/ ReadPin /\ ObserveIrq /\ AccelIdle
    \/ ReadClock /\ ObserveIrq /\ AccelIdle
    \/ Compare /\ ObserveIrq /\ AccelIdle
    \/ WriteState /\ ObserveIrq /\ AccelIdle
    \/ WriteTime /\ ObserveIrq /\ AccelIdle

SpecIrq == Init /\ [][NextIrq]_vars

\* the state at clock value t after Accelerometer() succeeded (its first
\* bus candidate answered; the log of the bring-up is not kept) and
\* update() polled the released buttons
ConstructedAs(t, kind, a) ==
    /\ now = t
    /\ active = ButtonOrder[1]
    /\ pin = [b \in Buttons |-> 1]
    /\ auto_update = TRUE
    /\ last_state = pin
    /\ last_time = [b \in Buttons |-> t]
    /\ callbacks = [b \in Buttons |-> <<>>]
    /\ irq_enabled = FALSE
    /\ handlers = {}
    /\ pc = "idle"
    /\ frame = NoFrame
    /\ ev = NoEv
    /\ sinceChange = 0
    /\ spaced = TRUE
    /\ phase = "none"
    /\ pressTrue = 0
    /\ pressDisp = 0
    /\ sinceReport = -1
    /\ elapsed = 0
    /\ hops = 0
    /\ bpc = "ready"
    /\ cand = 1
    /\ i2c = 1
    /\ devices = {}
    /\ blog = <<>>
    /\ shake_threshold = DefaultThresholdMg
    /\ shake_detected = FALSE
    /\ last_shake_time = 0
    /\ loop = NoLoop
    /\ script = 0
    /\ trueAt = {}
    /\ spikeTime = -1
    /\ sinceShake = -1
    /\ shakes = 0
    /\ burst = "fresh"
    /\ imu_type = kind
    /\ addr = a
    /\ bno = IF kind = "bno055"
             THEN [timeout |-> ChipIdTimeoutMs, chip_id |-> BNO055_ID,
                   reads |-> 1, writes |-> 5]
             ELSE NoBno
    /\ error = ""
    /\ handle = "object"
    /\ attempt = 1
    /\ offset = <<0, 0, 0>>
    /\ xyz = <<0, 0, 0>>
    /\ cal = NoCal
    /\ calSeen = NoSeen
    /\ sincePoll = 0
    /\ polled = FALSE
    /\ fast = "all"
    /\ sinceDispatch = -1

\* SpecShake: the program calls was_shaken and set_shake_threshold at any
\* time on a clock that does not wrap; the accelerometer was constructed
\* either right at clock 0 or a debounce window later.
\* the Pixiboo board: a BNO055 at its primary address
Constructed(t) == ConstructedAs(t, "bno055", BNO055_ADDR)

ShakeIdle == ButtonsIdle /\ UNCHANGED calSeen

InitShake == \E t \in {0, ShakeDebounceMs} : Constructed(t)

NextShake ==
    \/ Tick /\ UNCHANGED <<bringup, shake, detect, reading>> /\ ShakeIdle
            /\ ObserveScript /\ ObserveShaken
    \/ \E r \in Readings(shake_threshold), ok \in BOOLEAN :
          WasShaken(r, ok) /\ ShakeIdle /\ ObserveScript /\ ObserveShaken
    \/ \E t \in Thresholds :
          SetShakeThreshold(t) /\ ShakeIdle /\ ObserveScript
             /\ ObserveShaken

SpecShake == InitShake /\ [][NextShake]_vars

\* SpecLoop: on_shake is called, after set_shake_threshold or not, with a
\* returning or a raising callback, and its loop polls and sleeps.
NextLoop ==
    \/ \E t \in Thresholds :
          SetShakeThreshold(t) /\ ShakeIdle /\ ObserveShaken
             /\ UNCHANGED <<script, trueAt, spikeTime>>
    \/ \E c \in Callback, t \in Thresholds :
          OnShake(c, t) /\ ShakeIdle /\ ObserveShaken
             /\ UNCHANGED <<script, trueAt, spikeTime>>
    \/ \E r \in Readings(shake_threshold), ok \in BOOLEAN :
          LoopPoll(r, ok) /\ ShakeIdle /\ ObserveShaken
             /\ UNCHANGED <<script, trueAt, spikeTime>>
    \/ LoopSleep /\ ShakeIdle /\ ObserveShaken
             /\ UNCHANGED <<script, trueAt, spikeTime>>

SpecLoop == InitShake /\ [][NextLoop]_vars

\* SpecBus: Accelerometer() probes the bus candidates, each of which may
\* fail to open, fail to scan, scan empty or answer; _detect_imu is entered
\* (bpc = "detect") or __init__ raises (bpc = "failed").
InitBus == Init /\ active = ButtonOrder[1] /\ auto_update

BusIdle == ButtonsIdle /\ UNCHANGED <<shakeHistory, calSeen>>

NextBus ==
    \/ BootWait /\ BusIdle
    \/ \E ok \in BOOLEAN : OpenBus(ok) /\ BusIdle
    \/ Settle /\ BusIdle
    \/ \E res \in Scans, ok \in BOOLEAN : ScanBus(res, ok) /\ BusIdle

SpecBus == InitBus /\ [][NextBus]_vars

\* SpecUp: one call of init_accelerometer() from the boot wait to its
\* return, with every outcome of every bus operation.
NextUp ==
    \/ BootWait /\ BusIdle
    \/ \E ok \in BOOLEAN : OpenBus(ok) /\ BusIdle
    \/ Settle /\ BusIdle
    \/ \E res \in Scans, ok \in BOOLEAN : ScanBus(res, ok) /\ BusIdle
    \/ \E res \in DetectScans, ok \in BOOLEAN : Detect(res, ok) /\ BusIdle
    \/ \E ok \in BOOLEAN : InitMpu6050(ok) /\ BusIdle
    \/ \E ok \in BOOLEAN : InitLsm6ds3(ok) /\ BusIdle
    \/ \E v \in ChipIds, ok \in BOOLEAN : ChipIdPoll(v, ok) /\ BusIdle
    \/ \E v \in ChipIds, ok \in BOOLEAN : ChipIdLast(v, ok) /\ BusIdle
    \/ \E ok \in BOOLEAN : BnoWrite(ok) /\ BusIdle
    \/ InitAccelerometerReturns /\ BusIdle
    \/ InitAccelerometerFails /\ BusIdle

SpecUp == InitBus /\ [][NextUp]_vars

\* SpecRetry: init_accelerometer() is called again after it returned.  The
\* chip-ID register gives the same answer on every turn of the poll loop
\* (a chip that has booted, one that has not, or one that is not a BNO055),
\* and the bus holds a BNO055, an unknown device or nothing.
Steady(v, ok) ==
    \/ bno.reads = 0
    \/ ~ok /\ bno.chip_id = 0
    \/ ok /\ v = bno.chip_id

RetryScans == {{}, {BNO055_ADDR}, {60}}

NextRetry ==
    \/ BootWait /\ BusIdle
    \/ \E ok \in BOOLEAN : OpenBus(ok) /\ BusIdle
    \/ Settle /\ BusIdle
    \/ \E res \in RetryScans, ok \in BOOLEAN : ScanBus(res, ok) /\ BusIdle
    \/ \E res \in RetryScans, ok \in BOOLEAN : Detect(res, ok) /\ BusIdle
    \/ \E v \in ChipIds, ok \in BOOLEAN :
          Steady(v, ok) /\ ChipIdPoll(v, ok) /\ BusIdle
    \/ \E v \in ChipIds, ok \in BOOLEAN : ChipIdLast(v, ok) /\ BusIdle
    \/ \E ok \in BOOLEAN : BnoWrite(ok) /\ BusIdle
    \/ InitAccelerometerReturns /\ BusIdle
    \/ InitAccelerometerFails /\ BusIdle
    \/ InitAccelerometer /\ BusIdle

SpecRetry == InitBus /\ [][NextRetry]_vars

\* what a turn of calibrate() adds to the readings seen by the call
ObserveCal ==
    calSeen' =
        IF ev'.op # "calibrate" THEN calSeen
        ELSE LET first == cal.i = 0
                 base == IF first
                         THEN [NoSeen EXCEPT !.calls = calSeen.calls + 1]
                         ELSE calSeen
             IN IF ev'.exc THEN base
                ELSE [base EXCEPT !.sum = Plus(@, ev'.xyz),
                                  !.seen = @ \cup {ev'.xyz}]

ReadIdle == ButtonsIdle /\ UNCHANGED shakeHistory

\* SpecRead: get_values() on an uncalibrated accelerometer of each kind;
\* the X axis takes every pair of the bytes below, the other two axes a
\* zero or a minus one.
Kinds ==
    {<<"bno055", BNO055_ADDR>>, <<"mpu6050", MPU6050_ADDR>>,
     <<"lsm6ds3", LSM6DS3_ADDR>>}
Bytes == {0, 1, 64, 127, 128, 255}
Blocks ==
    {<<b0, b1, c, c, d, d>> : b0 \in Bytes, b1 \in Bytes, c \in {0, 255},
                              d \in {0, 255}}

InitRead == \E k \in Kinds : ConstructedAs(0, k[1], k[2])

NextRead ==
    \/ \E data \in Blocks, ok \in BOOLEAN :
          GetValues(data, ok) /\ ReadIdle /\ ObserveCal

SpecRead == InitRead /\ [][NextRead]_vars

\* SpecCal: calibrate() and get_values() on an MPU6050 that sends one of
\* two blocks: raw 820, -410, 8361 (100, -50 and 1020 mg) or raw -25, 58,
\* 8156 (-3, 7 and 995 mg).
CalBlocks == {<<3, 52, 254, 102, 32, 169>>, <<255, 231, 0, 58, 31, 220>>}

InitCal == ConstructedAs(0, "mpu6050", MPU6050_ADDR)

NextCal ==
    \/ \E data \in CalBlocks, ok \in BOOLEAN :
          /\ cal.i > 0 \/ calSeen.calls < MaxCalibrations
          /\ CalibrateSample(data, ok) /\ ReadIdle /\ ObserveCal
    \/ \E data \in CalBlocks, ok \in BOOLEAN :
          GetValues(data, ok) /\ ReadIdle /\ ObserveCal

SpecCal == InitCal /\ [][NextCal]_vars

\* SpecWrap: the wrapping clock.  The device sits idle for a short time,
\* for about half a clock period or across the wrap point, and then the
\* armed button is pressed or the accelerometer is shaken.
Gaps == {1, DebounceMs, Half - 1, Half}
WrapStarts == {0, Half - 1, TicksPeriod - 1}

CapP(n) == IF n >= TicksPeriod THEN TicksPeriod ELSE n

\* g milliseconds pass with no call and no edge
Idle(g) ==
    /\ pc = "idle" /\ loop.pc = "off"
    /\ now' = (now + g) % TicksPeriod
    /\ ev' = [NoEv EXCEPT !.op = "idle"]
    /\ UNCHANGED <<pin, auto_update, dispatcher, handlers, main, active,
                   bringup, shake, detect, reading>>

\* the real time since the stored times were written
ObserveWrap(g) ==
    /\ elapsed' = IF ev'.op = "irq" /\ Reported(ev') THEN 0
                  ELSE CapP(elapsed + g)
    /\ sinceShake' = IF ev'.op \in ShakeOps /\ ev'.shaken THEN 0
                     ELSE IF sinceShake = -1 THEN -1
                     ELSE CapP(sinceShake + g)
    /\ hops' = IF ev'.op = "idle" THEN hops + 1 ELSE hops
    /\ burst' = BurstNext(ev')
    /\ UNCHANGED <<history, script, trueAt, spikeTime, shakes, pollHistory,
                   calSeen>>

InitWrap == \E t \in WrapStarts : Constructed(t)

NextWrap ==
    \/ \E g \in Gaps :
          hops < MaxHops /\ Idle(g) /\ ObserveWrap(g)
    \/ Register(active, "f", 0) /\ UNCHANGED <<bringup, shake, detect, reading>>
          /\ ObserveWrap(0)
    \/ Press(active) /\ UNCHANGED <<bringup, shake, detect, reading>>
          /\ ObserveWrap(0)
    \/ Release(active) /\ UNCHANGED <<bringup, shake, detect, reading>>
          /\ ObserveWrap(0)
    \/ \E r \in Readings(shake_threshold) :
          WasShaken(r, TRUE) /\ ObserveWrap(0)

SpecWrap == InitWrap /\ [][NextWrap]_vars

\* ----------------------------------------------------------------- claims
Count(seq, x) == Cardinality({i \in DOMAIN seq : seq[i] = x})

\* the callbacks an operation ran for button b, in the order it ran them
RanOf(e, b) ==
    LET OfB(x) == x[1] = b
        sel == SelectSeq(e.ran, OfB)
    IN [i \in 1..Len(sel) |-> sel[i][2]]

DispatchOps == {"irq", "update"}
ReportOps == {"irq", "update", "poll"}

\* C1: when the level changes are at least DebounceMs apart and the
\* pressed phase was sampled by a debounced poll, the press that ends now
\* made exactly one poll return True.
C1_ExactlyOneTruePerPress ==
    [][(pin[active] = 0 /\ pin'[active] = 1 /\ spaced' /\ phase = "sampled")
          => pressTrue = 1]_vars

C3_AtMostOneDispatchPerPress ==
    (irq_enabled /\ callbacks[active] # <<>>) => pressDisp <= 1

\* C4: when the interrupt handler runs between the steps of a _pressed /
\* update() call for the same button, _last_time never moves back to an
\* older timestamp and the press is not dispatched by both contexts.
C4_LastTimeNotCorrupted ==
    [][/\ \A b \in Buttons : last_time'[b] >= last_time[b]
       /\ (irq_enabled /\ callbacks[active] # <<>>) => pressDisp' <= 1]_vars

\* C5: is_pressed changes no dispatcher state, so the polls and dispatches
\* after it decide exactly as they would have without it.
C5_IsPressedReadsOnly ==
    [][ev'.op = "is_pressed"
          => /\ UNCHANGED <<last_state, last_time, callbacks, irq_enabled>>
             /\ UNCHANGED <<now, pin, handlers>>
             /\ \A b \in Buttons :
                  PressedStep(last_state'[b], last_time'[b], pin'[b], now')
                    = PressedStep(last_state[b], last_time[b], pin[b], now)]_vars

\* is_pressed returned True for a press that no debounced poll has seen yet
C5_Witness ==
    /\ ev.op = "is_pressed" /\ ev.btn = active /\ ev.held
    /\ last_state[active] = 1
    /\ now - last_time[active] >= DebounceMs

\* C10: for a press seen by update() (level low, stored level high) the
\* debounce decision and the _last_time left behind are those of the
\* interrupt handler run at the same clock on the same _last_time.
C10_UpdateMatchesHandler ==
    \A b \in Buttons :
        (pin[b] = 0 /\ last_state[b] = 1)
        => LET p == PressedStep(last_state[b], last_time[b], pin[b], now)
               h == HandlerStep(last_time[b], now)
           IN p.res = h.disp /\ p.last_time = h.last_time

\* C6: a registration appends (never replaces, never deduplicates), and a
\* dispatch runs each callback as many times as it is registered on the
\* dispatched button and no callback of a button it did not dispatch.
C6_RegisteredKTimesRunsKTimes ==
    [][/\ (ev'.op = "register" /\ ev'.btn \in Buttons)
            => /\ Len(callbacks'[ev'.btn]) = Len(callbacks[ev'.btn]) + 1
               /\ SubSeq(callbacks'[ev'.btn], 1, Len(callbacks[ev'.btn]))
                     = callbacks[ev'.btn]
               /\ \A o \in Buttons \ {ev'.btn} : callbacks'[o] = callbacks[o]
       /\ ev'.op \in DispatchOps
            => \A b \in Buttons, c \in Callback :
                  Count(ev'.ran, <<b, c>>) =
                     IF b \in ev'.rep THEN Count(callbacks[b], c) ELSE 0]_vars

\* a callback registered twice on the dispatched button ran twice
C6_Witness ==
    /\ ev.op \in DispatchOps
    /\ \E b \in ev.rep, c \in Callback :
          callbacks[b] = <<c, c>> /\ Count(ev.ran, <<b, c>>) = 2

\* C7: a dispatch runs the button's callbacks in registration order, and
\* an interrupt inside the debounce window runs none.
C7_RegistrationOrder ==
    [][/\ ev'.op \in DispatchOps
            => \A b \in Buttons :
                  RanOf(ev', b) = IF b \in ev'.rep THEN callbacks[b] ELSE <<>>
       /\ (ev'.op = "irq" /\ now - last_time[ev'.btn] < DebounceMs)
            => ev'.ran = <<>> /\ ev'.rep = {}]_vars

\* the handler ran two different callbacks, first registered first
C7_Witness ==
    /\ ev.op = "irq" /\ ev.rep = {ev.btn}
    /\ Len(ev.ran) = 2 /\ ev.ran[1] # ev.ran[2]
    /\ callbacks[ev.btn] = <<ev.ran[1][2], ev.ran[2][2]>>

\* C8: a raising callback does not escape the dispatcher, the callbacks
\* after it still run, the dispatcher state is what an unfailing dispatch
\* leaves, and the next dispatch decision depends on _last_time only.
C8_RaisingCallbackIsolated ==
    [][ev'.op \in DispatchOps
          => /\ ~ev'.exc
             /\ \A b \in ev'.rep : Len(RanOf(ev', b)) = Len(callbacks[b])
             /\ callbacks' = callbacks
             /\ ev'.op = "irq"
                  => /\ last_state' = last_state
                     /\ (ev'.rep = {ev'.btn})
                           = (now - last_time[ev'.btn] >= DebounceMs)
                     /\ \A b \in ev'.rep : last_time'[b] = now
                     /\ \A b \in Buttons \ ev'.rep : last_time'[b] = last_time[b]
             /\ ev'.op = "update"
                  => /\ last_state' = pin
                     /\ \A b \in Buttons : last_time'[b] = now]_vars

\* a raising callback ran first and the one registered after it ran too
C8_Witness ==
    /\ ev.op \in DispatchOps
    /\ \E b \in ev.rep :
          /\ callbacks[b] = <<"g", "f">>
          /\ ev.ran = << <<b, "g">>, <<b, "f">> >>

\* C9 as stated: the first registration on a valid button with auto_update
\* installs a handler on all three pins and sets _irq_enabled, and no later
\* registration installs anything.
C9_FirstRegistrationArms ==
    [][(ev'.op = "register" /\ ev'.btn \in Buttons /\ auto_update)
          => IF Total(callbacks) = 0
             THEN irq_enabled' /\ handlers' = Buttons
             ELSE ev'.inst = {}]_vars

\* C9 amended: a registration on a valid button with auto_update, made
\* while _irq_enabled is False, arms all three pins and sets _irq_enabled
\* when no pin.irq call raises; when one raises, only the pins before it
\* got a handler and _irq_enabled stays False.  Once _irq_enabled is True
\* it stays True and no registration installs anything; without
\* auto_update, or for an unknown name, nothing is installed.
C9_ArmsOnceUnlessIrqRaises ==
    [][/\ irq_enabled => (irq_enabled' /\ ev'.inst = {} /\ handlers' = handlers)
       /\ irq_enabled' => handlers' = Buttons
       /\ ~auto_update => (handlers' = {} /\ ~irq_enabled')
       /\ (ev'.op = "register" /\ ev'.btn \notin Buttons)
            => (ev'.inst = {} /\ handlers' = handlers
                /\ irq_enabled' = irq_enabled /\ callbacks' = callbacks)
       /\ (ev'.op = "register" /\ ev'.btn \in Buttons /\ auto_update
             /\ ~irq_enabled)
            => IF ev'.fail = 0
               THEN irq_enabled' /\ ev'.inst = Buttons /\ handlers' = Buttons
               ELSE /\ ~irq_enabled'
                    /\ ev'.inst = {ButtonOrder[i] : i \in 1..(ev'.fail - 1)}
                    /\ handlers' = handlers \cup ev'.inst
       /\ ev'.op # "register" => (handlers' = handlers
                                  /\ irq_enabled' = irq_enabled)]_vars

\* pin.irq raised during the first registration, so the second one armed
\* all three pins
C9_Witness ==
    /\ ev.op = "register" /\ ev.btn \in Buttons
    /\ auto_update /\ Total(callbacks) = 2
    /\ ev.inst = Buttons /\ ev.fail = 0
    /\ irq_enabled /\ handlers = Buttons

\* C11: _last_state of a button changes only in a step taken at least
\* DebounceMs after the button's stored _last_time, and then to a level
\* that differs from the stored one.
C11_StableLevelChangesAfterWindow ==
    [][\A b \in Buttons :
          last_state'[b] # last_state[b]
          => /\ TicksDiff(now, last_time[b]) >= DebounceMs
             /\ pin[b] # last_state[b]]_vars

\* C12: a debounced poll, an interrupt dispatch or a registration for one
\* button leaves _last_state, _last_time and the callback list of the other
\* two buttons as they were.
C12_OtherButtonsUntouched ==
    [][(ev'.op \in {"poll", "irq", "register"} /\ ev'.btn \in Buttons)
          => \A o \in Buttons \ {ev'.btn} :
                /\ last_state'[o] = last_state[o]
                /\ last_time'[o] = last_time[o]
                /\ callbacks'[o] = callbacks[o]]_vars

\* a poll returned True for the operated button, whose three records now
\* all differ from those of the other two buttons
C12_Witness ==
    /\ ev.op = "poll" /\ ev.rep = {active}
    /\ callbacks[active] # <<>>
    /\ \A o \in Buttons \ {active} :
          /\ last_state[o] = 1 /\ last_state[active] = 0
          /\ last_time[o] < last_time[active]
          /\ callbacks[o] = <<>>

\* the capacity a run of MaxRegs registrations would exceed
Capacity == MaxRegs - 1

\* C14: the callback list of a button never holds more than Capacity
\* callbacks: a registration beyond it is rejected or capped.
C14_CallbacksWithinCapacity ==
    \A b \in Buttons : Len(callbacks[b]) <= Capacity

\* C15 as stated: over QuietCalls calls at rest, one call at twice the
\* threshold and calls at rest after it, exactly one call returns True and
\* it is the first call after the spike call.
C15_TrueOnCallAfterSpike ==
    script = QuietCalls + 2 => trueAt = {"next"}

\* C15 amended: over that sequence the spike call itself is the only call
\* that can return True; it returns True when the clock at that call is at
\* least ShakeDebounceMs past _last_shake_time (0 since construction), and
\* otherwise no call of the sequence returns True.
C15_TrueOnSpikeCall ==
    script >= QuietCalls + 1
    => trueAt = IF spikeTime >= ShakeDebounceMs THEN {"spike"} ELSE {}

\* the sequence was played to a call at rest after the spike, and the spike
\* call was the one that returned True
C15_Witness ==
    /\ script = QuietCalls + 2
    /\ ev.op = "was_shaken" /\ ~ev.shaken
    /\ trueAt = {"spike"}

\* C16: on a clock that does not wrap, a was_shaken call that returns True
\* comes at least ShakeDebounceMs after the previous call that returned
\* True, so two spikes closer than that give one True.
C16_ShakesDebounceApart ==
    [][(ev'.op \in ShakeOps /\ ev'.shaken /\ sinceShake # -1)
          => sinceShake >= ShakeDebounceMs]_vars

\* a second reading above the threshold came inside the window of a
\* reported shake and was not reported
C16_Witness ==
    /\ ev.op = "was_shaken" /\ ~ev.exc /\ ~ev.shaken
    /\ MagnitudeSquared(ev.xyz) > shake_threshold * shake_threshold
    /\ sinceShake # -1 /\ sinceShake < ShakeDebounceMs

\* C17: was_shaken arms (and so returns True) and sets _last_shake_time to
\* the clock exactly when x*x + y*y + z*z > threshold * threshold and at
\* least ShakeDebounceMs passed since _last_shake_time; otherwise
\* _last_shake_time stays; set_shake_threshold changes the threshold only.
C17_ArmsExactlyAboveThresholdOutsideWindow ==
    [][/\ (ev'.op = "was_shaken" /\ ~ev'.exc)
            => LET arm == /\ MagnitudeSquared(ev'.xyz)
                               > shake_threshold * shake_threshold
                          /\ now - last_shake_time >= ShakeDebounceMs
               IN /\ ev'.shaken = arm
                  /\ last_shake_time' = IF arm THEN now ELSE last_shake_time
                  /\ shake_threshold' = shake_threshold
       /\ ev'.op = "set_shake_threshold"
            => /\ shake_threshold' = ev'.th
               /\ UNCHANGED <<now, shake_detected, last_shake_time, loop>>]_vars

\* outside the window, a reading whose magnitude equals the threshold was
\* not reported and _last_shake_time is still that of the last shake
C17_Witness ==
    /\ ev.op = "was_shaken" /\ ~ev.exc /\ ~ev.shaken
    /\ ev.xyz = <<shake_threshold, 0, 0>>
    /\ last_shake_time > 0
    /\ now - last_shake_time >= ShakeDebounceMs

\* C18: once on_shake runs its loop it never returns; a turn whose
\* was_shaken call returned invokes the callback exactly when the call
\* returned True, lets no exception of the callback out, and goes to sleep;
\* after the sleep the loop polls again.
C18_RaisingCallbackKeepsLoop ==
    [][loop.pc \in {"poll", "sleep"}
          => /\ loop'.pc # "off"
             /\ (ev'.op = "on_shake_poll" /\ ~ev'.io)
                  => /\ ~ev'.exc
                     /\ loop'.pc = "sleep"
                     /\ ev'.ran = IF ev'.shaken
                                  THEN << <<"shake", loop.cb>> >> ELSE <<>>
             /\ ev'.op = "sleep" => loop'.pc = "poll"]_vars

\* the raising callback was invoked for a second shake, after it had
\* raised on the first one
C18_Witness ==
    /\ ev.op = "on_shake_poll" /\ ev.shaken
    /\ loop = [pc |-> "sleep", cb |-> "g"]
    /\ ev.ran = << <<"shake", "g">> >>
    /\ shakes = 2

\* C19: on_shake(callback, threshold_mg) leaves threshold_mg as the
\* threshold its loop detects shakes with, whatever it was before.
C19_OnShakeUsesItsThreshold ==
    [][ev'.op = "on_shake" => shake_threshold' = ev'.th]_vars

\* C13: on the wrapping clock an interrupt for a press is dispatched
\* exactly when at least DebounceMs of real time passed since the button's
\* _last_time was written, and a reading above the threshold is reported
\* exactly when at least ShakeDebounceMs passed since the last reported
\* shake, whatever the gap: across the wrap point or beyond half a period.
C13_DebounceCorrectAcrossWrap ==
    [][/\ ev'.op = "irq"
            => (Reported(ev') <=> elapsed >= DebounceMs)
       /\ (/\ ev'.op = "was_shaken"
           /\ MagnitudeSquared(ev'.xyz) > shake_threshold * shake_threshold
           /\ sinceShake # -1)
            => (ev'.shaken <=> sinceShake >= ShakeDebounceMs)]_vars

\* the I2C(...) calls of the log, in order
Opens ==
    LET IsOpen(e) == e.k = "open"
    IN SelectSeq(blog, IsOpen)

\* the log holds a scan of bus b at frequency f that found an address
Answered(b, f) ==
    \E j \in DOMAIN blog :
        /\ blog[j].k = "scan" /\ blog[j].bus = b /\ blog[j].freq = f
        /\ blog[j].ok /\ blog[j].res # {}

\* the fixed order of the candidates
ProbeOrder == << <<0, 100000>>, <<0, 400000>>, <<1, 100000>> >>

\* C20: the first bus operation comes after the boot wait of BootWaitMs;
\* the candidates are opened in the fixed order, each at most once, and
\* one is opened only when no earlier one answered; _detect_imu is entered
\* exactly when a candidate answered, on that candidate's bus and right
\* after its scan; when none of the three answered (empty scan, or open or
\* scan raising) __init__ raises and _detect_imu is not entered.
C20_ProbeOrderFirstAnswerWins ==
    /\ blog # <<>> => blog[1] = LogSleep(BootWaitMs)
    /\ bpc # "new" => blog # <<>>
    /\ Len(Opens) <= Len(ProbeOrder)
    /\ \A i \in 1..Len(Opens) :
          /\ <<Opens[i].bus, Opens[i].freq>> = ProbeOrder[i]
          /\ \A j \in 1..(i - 1) :
                ~Answered(ProbeOrder[j][1], ProbeOrder[j][2])
    /\ bpc = "detect"
          <=> \E i \in 1..3 : Answered(ProbeOrder[i][1], ProbeOrder[i][2])
    /\ bpc = "detect"
          => LET last == blog[Len(blog)]
             IN /\ last.k = "scan" /\ last.ok /\ last.res = devices
                /\ devices # {}
                /\ i2c = Len(Opens)
                /\ <<last.bus, last.freq>> = ProbeOrder[i2c]
    /\ bpc = "failed"
          <=> /\ Len(Opens) = 3
              /\ \A i \in 1..3 : ~Answered(ProbeOrder[i][1], ProbeOrder[i][2])
              /\ blog[Len(blog)] = LogRaise
    /\ bpc = "failed" => i2c = 0

\* the first candidate failed to open, the second scanned empty and the
\* third answered: its bus is kept and _detect_imu is entered
C20_Witness ==
    /\ bpc = "detect" /\ i2c = 3 /\ devices = {41}
    /\ Len(Opens) = 3 /\ ~Opens[1].ok /\ Opens[2].ok
    /\ \E j \in DOMAIN blog : blog[j].k = "scan" /\ blog[j].bus = 0
                                /\ blog[j].ok /\ blog[j].res = {}

\* the addresses of the supported devices in the order of their priority,
\* and the kind of device behind each
Priority == <<BNO055_ADDR, BNO055_ADDR_ALT, MPU6050_ADDR, MPU6050_ADDR_ALT,
              LSM6DS3_ADDR>>
Known == {Priority[i] : i \in DOMAIN Priority}
First(res) ==
    Priority[CHOOSE i \in DOMAIN Priority :
                /\ Priority[i] \in res
                /\ \A j \in 1..(i - 1) : Priority[j] \notin res]
KindOf(a) ==
    IF a \in {BNO055_ADDR, BNO055_ADDR_ALT} THEN "bno055"
    ELSE IF a \in {MPU6050_ADDR, MPU6050_ADDR_ALT} THEN "mpu6050"
    ELSE "lsm6ds3"

\* the registers the init protocol of a kind writes, and where __init__
\* stands when _detect_imu calls it
InitRegs(kind) ==
    IF kind = "bno055" THEN {BnoWrites[i].reg : i \in DOMAIN BnoWrites}
    ELSE IF kind = "mpu6050" THEN {MpuWrite.reg}
    ELSE IF kind = "lsm6ds3" THEN {LsmWrite.reg}
    ELSE {}
InitEntry(kind) ==
    IF kind = "bno055" THEN "bno_poll"
    ELSE IF kind = "mpu6050" THEN "mpu_init" ELSE "lsm_init"

\* the register writes issued so far in this bring-up
Writes == SelectSeq(blog, LAMBDA e : e.k = "write")

C22_UnknownDeviceIsItsOwnError ==
    [][/\ bpc = "detect" /\ bpc' # "detect" /\ blog'[Len(blog) + 1].ok
          => LET res == blog'[Len(blog) + 1].res
             IN /\ (res # {} /\ res \cap Known = {})
                   => bpc' = "failed" /\ error' = "unknown_device"
                /\ res = {} => bpc' = "failed" /\ error' = "no_device"
       /\ error' = "unknown_device"
          => Writes' = <<>> /\ imu_type' = "" /\ addr' = 0
      ]_vars

\* init_accelerometer() has returned after a scan that found only the
\* unknown address 0x3C
C22_Witness ==
    /\ error = "unknown_device" /\ bpc = "returned"
    /\ devices = {60} /\ Writes = <<>>

\* the chip-ID reads the poll loop of _init_bno055 may make
MaxPollReads == ChipIdTimeoutMs \div ChipIdRetryMs

\* C23: _init_bno055 reads the chip ID at most 85 times in its loop, 10 ms
\* after the read before, and stops reading at the first 0xA0; when the
\* budget of 850 ms is spent it waits and reads exactly once more, and when
\* that read raises or mismatches __init__ fails; no read follows, so a
\* bring-up makes at most 86 chip-ID reads.
C23_ChipIdReadsBounded ==
    [][/\ bno'.reads <= MaxPollReads + 1
       /\ bpc' = "bno_poll"
          => /\ bno'.reads < MaxPollReads
             /\ bno'.reads * ChipIdRetryMs = ChipIdTimeoutMs - bno'.timeout
             /\ bno'.chip_id # BNO055_ID
       /\ (bpc = "bno_poll" /\ bpc' = "bno_poll")
          => bno'.reads = bno.reads + 1 /\ now' = now + ChipIdRetryMs
       /\ (bpc = "bno_poll" /\ bno'.chip_id = BNO055_ID)
          => bpc' = "bno_write" /\ bno'.reads = bno.reads + 1
       /\ bpc' = "bno_last"
          => bno'.reads = MaxPollReads /\ bno'.chip_id # BNO055_ID
       /\ bpc = "bno_last"
          => /\ bno'.reads = MaxPollReads + 1
             /\ now' = now + ChipIdLastWaitMs
             /\ IF bno'.chip_id = BNO055_ID
                THEN bpc' = "bno_write"
                ELSE /\ bpc' = "failed"
                     /\ error' \in {"not_responding", "wrong_chip_id"}
       /\ bpc \notin {"bno_poll", "bno_last"} => bno'.reads = bno.reads
       /\ bpc' = "bno_write" => bno'.chip_id = BNO055_ID
      ]_vars

\* the chip never gave 0xA0: 85 reads in the loop, one more after the wait,
\* and init_accelerometer() has returned
C23_Witness ==
    /\ bpc = "returned" /\ error = "wrong_chip_id"
    /\ bno.reads = MaxPollReads + 1 /\ Writes = <<>>

\* operation mode = config, power mode = normal, page ID = 0, system
\* trigger = 0, operation mode = NDOF, as <<register, value>>
ConfigOrder == <<<<61, 0>>, <<62, 0>>, <<7, 0>>, <<63, 0>>, <<61, 12>>>>

\* C24: in a BNO055 bring-up a register is written only after the chip ID
\* was read as 0xA0; the writes issued are, in this order and once each,
\* operation mode = config, power mode = normal, page ID = 0, system
\* trigger = 0, operation mode = NDOF, each write that went through being
\* followed by a sleep, and all five have been issued when __init__
\* completes; a bring-up that ends with a chip-ID error has written nothing.
C24_WritesAfterChipIdInOrder ==
    /\ imu_type = "bno055"
       => /\ Writes # <<>> => bno.chip_id = BNO055_ID
          /\ Len(Writes) <= Len(ConfigOrder)
          /\ \A i \in DOMAIN Writes :
                /\ <<Writes[i].reg, Writes[i].val>> = ConfigOrder[i]
                /\ i < Len(Writes) => Writes[i].ok
          /\ \A i \in DOMAIN blog :
                (blog[i].k = "write" /\ blog[i].ok)
                => /\ i < Len(blog)
                   /\ blog[i + 1].k = "sleep" /\ blog[i + 1].ms > 0
          /\ bpc \in {"built", "ready"}
             => /\ Len(Writes) = Len(ConfigOrder)
                /\ Writes[Len(Writes)].ok
    /\ error \in {"not_responding", "wrong_chip_id"} => Writes = <<>>

\* the chip gave 0xA0 only at the last read after the loop, and the five
\* writes followed
C24_Witness ==
    /\ imu_type = "bno055" /\ bpc = "built"
    /\ bno.reads = MaxPollReads + 1
    /\ Len(Writes) = Len(ConfigOrder)

\* the entries of the log that are a call of kind k on candidate bus c
Calls(k, c) ==
    {i \in DOMAIN blog : blog[i].k = k /\ blog[i].bus = Candidates[c].bus
                            /\ blog[i].freq = Candidates[c].freq}

\* C25: once __init__ has raised, at whatever stage, the only thing that
\* follows is the return of init_accelerometer(): no bus operation is run
\* again, the package's handle becomes None, and within one attempt the boot
\* wait, the opening of each bus and the detection scan happen at most once;
\* the handle is an Accelerometer only after a bring-up that completed; a
\* later call of init_accelerometer() starts with an empty log at the boot
\* wait.
C25_FailureIsTerminal ==
    [][/\ bpc = "failed"
          => /\ bpc' = "returned" /\ handle' = "none"
             /\ blog' = blog /\ now' = now /\ bno' = bno
       /\ bpc' = "failed"
          => /\ error' # ""
             /\ Cardinality({i \in DOMAIN blog' : blog'[i].k = "raise"}) = 1
             /\ blog'[Len(blog')].k = "raise"
       /\ bpc' = "returned" => handle' = "none"
       /\ handle' = "object" => handle = "object" \/ bpc = "built"
       /\ \A c \in DOMAIN Candidates :
             /\ Cardinality(Calls("open", c)') <= 1
             /\ Cardinality(Calls("scan", c)') <= 2
       /\ Cardinality({i \in DOMAIN blog' :
                          blog'[i] = LogSleep(BootWaitMs)}) <= 1
       /\ bpc = "returned"
          => /\ bpc' = "new" /\ blog' = <<>> /\ attempt' = attempt + 1
             /\ handle' = "none"
       /\ bpc = "new" => bpc' = "open" /\ blog' = <<LogSleep(BootWaitMs)>>
      ]_vars

\* the first call failed and returned None; the second call has done its
\* boot wait
C25_Witness ==
    /\ attempt = 2 /\ handle = "none"
    /\ bpc = "open" /\ blog = <<LogSleep(BootWaitMs)>>

\* the two's-complement value of a 16-bit word
S16(u) == ((u + 32768) % 65536) - 32768

\* an uncalibrated get_values() on the MPU6050 has just returned
MpuRead ==
    /\ ev.op = "get_values" /\ ~ev.exc
    /\ imu_type = "mpu6050" /\ offset = <<0, 0, 0>>

Rest == <<100, -50, 1020>>
ReadAfterCalibratingAtRest ==
    /\ ev.op = "get_values" /\ ~ev.exc /\ xyz = Rest
    /\ calSeen.seen = {Rest}
    /\ calSeen.sum = <<Samples * Rest[1], Samples * Rest[2],
                       Samples * Rest[3]>>

\* C27 (as stated): after calibrate() sampled ten readings (100, -50, 1020),
\* get_values() on the same reading returns (0, 0, 20).
C27_RestReadsTwenty ==
    ReadAfterCalibratingAtRest => ev.xyz = <<0, 0, 20>>

\* C27 (amended): after calibrate() sampled ten readings (100, -50, 1020),
\* the offsets are (100, -50, 20) and get_values() on the same reading
\* returns (0, 0, 1000).
C27_RestReadsGravity ==
    ReadAfterCalibratingAtRest
    => offset = <<100, -50, 20>> /\ ev.xyz = <<0, 0, 1000>>

\* get_values() returned (0, 0, 1000) after such a calibration
C27_Witness ==
    ReadAfterCalibratingAtRest /\ ev.xyz = <<0, 0, 1000>>

\* the floor of the mean of ten samples with sum s
FloorMean(s) ==
    CHOOSE q \in (0 - 2048)..2048 : q * Samples <= s /\ s < (q + 1) * Samples

\* C28: the turn of calibrate() that takes the tenth sample stores as
\* offsets the floor of the mean of the ten uncalibrated readings the device
\* gave during this call, less 1000 on Z, whatever offsets were stored
\* before; nothing else changes the offsets.
C28_OffsetsFromRawSamplesOnly ==
    [][IF ev'.op = "calibrate" /\ ~ev'.exc /\ cal.i = Samples - 1
       THEN offset' = <<FloorMean(calSeen'.sum[1]),
                        FloorMean(calSeen'.sum[2]),
                        FloorMean(calSeen'.sum[3]) - Gravity>>
       ELSE offset' = offset
      ]_vars

\* a second calibrate(), begun with offsets other than zero, has stored
\* offsets from readings of both kinds whose Y sum is negative and not a
\* multiple of ten
C28_Witness ==
    /\ ev.op = "calibrate" /\ ~ev.exc /\ cal.i = 0
    /\ calSeen.calls = 2 /\ Cardinality(calSeen.seen) = 2
    /\ calSeen.sum[2] < 0 /\ calSeen.sum[2] % Samples # 0
    /\ offset[2] = FloorMean(calSeen.sum[2])
    /\ offset[2] # Trunc(calSeen.sum[2], Samples)

\* C29 (as stated): when every debounced poll of the button comes less
\* than debounce_ms after the poll before it, no poll returns True and
\* update() dispatches nothing for the button.
C29_FastPollsNeverTrue ==
    (Polled(ev) /\ fast # "no")
    => ~Reported(ev) /\ RanOf(ev, active) = <<>>

\* C29 (amended): when moreover the first poll comes less than debounce_ms
\* after the Buttons object was constructed, no poll returns True and
\* update() dispatches nothing for the button.
C29_FastPollsSinceConstructionNeverTrue ==
    (Polled(ev) /\ fast = "all")
    => ~Reported(ev) /\ RanOf(ev, active) = <<>>

\* a debounce window after construction, update() has just sampled the
\* button down for the first time, a callback is registered, and every poll
\* so far was fast
C29_Witness ==
    /\ ev.op = "update" /\ fast = "all" /\ now >= DebounceMs
    /\ pin[active] = 0 /\ sinceChange = 0 /\ ~Reported(ev)
    /\ callbacks[active] # <<>>

\* C30: with a callback registered and the handler installed, a falling
\* edge that comes at least debounce_ms after the previous level change and
\* at least debounce_ms after the previous dispatch (if any) is dispatched,
\* whenever the main program polled the button.
C30_PollsDoNotSuppressInterrupts ==
    [][(/\ ev'.op = "irq" /\ callbacks[active] # <<>>
        /\ sinceChange >= DebounceMs
        /\ sinceDispatch = -1 \/ sinceDispatch >= DebounceMs)
       => Reported(ev') /\ RanOf(ev', active) # <<>>
      ]_vars

\* C31: a run of the interrupt handler of a button leaves _last_state, the
\* callback lists, _irq_enabled and the installed handlers as they were and
\* the _last_time of the other buttons too; when the debounce check
\* discards it, _last_time of the button itself is unchanged as well, and
\* when it dispatches, that _last_time is the clock.
C31_HandlerWritesOnlyItsLastTime ==
    [][ev'.op = "irq"
       => /\ last_state' = last_state
          /\ callbacks' = callbacks
          /\ irq_enabled' = irq_enabled
          /\ handlers' = handlers
          /\ \A o \in Buttons \ {ev'.btn} : last_time'[o] = last_time[o]
          /\ IF ev'.rep = {}
             THEN last_time' = last_time
             ELSE last_time'[ev'.btn] = now
      ]_vars

\* the handler has just discarded a falling edge that came within the
\* debounce window of a poll, with a callback registered
C31_Witness ==
    /\ ev.op = "irq" /\ ev.rep = {} /\ ev.btn = active
    /\ callbacks[active] # <<>>
    /\ last_time[active] # now /\ TicksDiff(now, last_time[active]) < DebounceMs

\* C32: a dispatch for the button invokes exactly the callbacks that were
\* in its list when the dispatch began, in their order (so a callback
\* registered by a running callback waits for the next dispatch, and the
\* dispatch makes as many invocations as the list was long).
C32_DispatchRunsListAtStart ==
    [][(ev'.op \in DispatchOps /\ Reported(ev'))
       => /\ RanOf(ev', active) = callbacks[active]
          /\ Len(ev'.ran) = Len(callbacks[active])
      ]_vars

\* C33: every on_button_pressed on a button returns normally with the
\* callback appended; when pin.irq raises while it arms, _irq_enabled stays
\* False; every call made with auto_update on and _irq_enabled False arms
\* again from the first pin, installing all three handlers unless pin.irq
\* raises again; and _irq_enabled is True only when every button has a
\* handler.
C33_FailedArmingIsRetried ==
    [][/\ (ev'.op = "register" /\ ev'.btn \in Buttons)
          => /\ ~ev'.exc
             /\ Len(callbacks'[ev'.btn]) = Len(callbacks[ev'.btn]) + 1
             /\ SubSeq(callbacks'[ev'.btn], 1, Len(callbacks[ev'.btn]))
                   = callbacks[ev'.btn]
             /\ ev'.fail > 0 => ~irq_enabled'
             /\ (auto_update /\ ~irq_enabled)
                => /\ ev'.inst = IF ev'.fail = 0 THEN Buttons
                                 ELSE {ButtonOrder[i] :
                                          i \in 1..(ev'.fail - 1)}
                   /\ irq_enabled' = (ev'.fail = 0)
             /\ ~(auto_update /\ ~irq_enabled)
                => ev'.inst = {} /\ irq_enabled' = irq_enabled
       /\ irq_enabled' => handlers' = Buttons
      ]_vars

\* the second registration has armed all three buttons: the first one, whose
\* callback is in the list, had failed
C33_Witness ==
    /\ ev.op = "register" /\ ev.inst = Buttons /\ irq_enabled
    /\ Total(callbacks) = 2

\* C34: _shake_detected is False after construction, after every
\* was_shaken call (returned or left by an exception) and after every other
\* step; a call that returned gives True exactly when that call armed (its
\* own reading is above the threshold and the signed clock difference to
\* _last_shake_time is at least ShakeDebounceMs), whatever the calls before.
C34_NoPendingShakeBetweenCalls ==
    /\ ~shake_detected
    /\ [][/\ ~shake_detected'
          /\ (ev'.op = "was_shaken" /\ ~ev'.exc)
               => ev'.shaken
                    = (/\ MagnitudeSquared(ev'.xyz)
                            > shake_threshold * shake_threshold
                       /\ TicksDiff(now, last_shake_time)
                            >= ShakeDebounceMs)
         ]_vars

\* a call at rest returned False in the millisecond of a call that had
\* returned True
C34_Witness ==
    /\ ev.op = "was_shaken" /\ ~ev.exc /\ ~ev.shaken /\ Quiet(ev)
    /\ sinceShake = 0 /\ last_shake_time = now
    /\ ~shake_detected

\* C35: while every reading stays above the threshold over consecutive
\* was_shaken calls, only the first of those calls returns True: a call in
\* a run whose first call returned True returns False, however long after
\* the first call it comes.
C35_UninterruptedShakeReportedOnce ==
    [][(ev'.op = "was_shaken" /\ ~ev'.exc /\ Above(ev')
          /\ burst = "reported")
       => ~ev'.shaken]_vars

\* C36: the first was_shaken call since construction that reads above the
\* threshold returns True, whatever the value of the wrapping clock at that
\* call.
C36_FirstShakeReportedAtAnyClock ==
    [][(ev'.op = "was_shaken" /\ ~ev'.exc /\ Above(ev') /\ burst = "fresh")
       => ev'.shaken]_vars

\* C37: once _detect_imu has chosen a device the choice stays, and once it
\* is entered no further bus candidate is opened; a bring-up that chose the
\* BNO055 writes none of the init registers of the MPU6050 or LSM6DS3,
\* and when the chip-ID check fails it ends in failure with no register
\* written at all, also when the scan held an MPU6050 or LSM6DS3 address;
\* when the scan of the first answering candidate holds unknown addresses
\* only, the bring-up fails with no candidate opened after that one.
C37_NoFallBackToLowerPriority ==
    [][/\ imu_type # "" => imu_type' = imu_type /\ addr' = addr
       /\ bpc \notin {"new", "open", "settle", "scan"}
          => Opens' = Opens /\ i2c' = i2c
       /\ imu_type' = "bno055"
          => \A j \in DOMAIN Writes' :
                Writes'[j].reg \notin InitRegs("mpu6050")
                                         \cup InitRegs("lsm6ds3")
       /\ error' \in {"not_responding", "wrong_chip_id"}
          => /\ bpc' \in {"failed", "returned"}
             /\ imu_type' = "bno055"
             /\ Writes' = <<>>
             /\ handle' # "object"
       /\ (error' = "unknown_device" \/ devices' \cap Known = {})
          => /\ bpc' \notin {"built", "ready"}
             /\ imu_type' = "" /\ Writes' = <<>>
             /\ handle' # "object"
       /\ error' = "unknown_device"
          => /\ bpc' \in {"failed", "returned"}
             /\ Len(Opens') = i2c'
      ]_vars

\* the second candidate answered with a BNO055 and an MPU6050 address, the
\* chip ID never matched, and init_accelerometer() returned with nothing
\* written and the third candidate not opened
C37_Witness ==
    /\ bpc = "returned" /\ error = "wrong_chip_id"
    /\ devices = {BNO055_ADDR_ALT, MPU6050_ADDR}
    /\ i2c = 2 /\ Len(Opens) = 2
    /\ Writes = <<>> /\ handle = "none"

\* the scan() calls of the log, in order
ScansLog == SelectSeq(blog, LAMBDA e : e.k = "scan")

\* C38: __init__ fails with the no-working-configuration error exactly when
\* it has failed and no scan of the log found an address; all three
\* candidates were then opened, every scan was a probe scan and
\* _detect_imu was not entered.  It fails with the no-accelerometer error
\* only when the last probe scan found an address and the scan after it,
\* made by _detect_imu on the bus of that candidate, returned none.
C38_TwoScansTwoErrors ==
    LET n == Len(ScansLog)
        found == \E j \in 1..n : ScansLog[j].ok /\ ScansLog[j].res # {}
    IN /\ (bpc \in {"failed", "returned"} /\ ~found) <=> error = "no_bus"
       /\ error = "no_bus"
          => /\ Len(Opens) = Len(ProbeOrder)
             /\ n <= Len(SelectSeq(Opens, LAMBDA e : e.ok))
             /\ i2c = 0 /\ imu_type = "" /\ Writes = <<>>
       /\ error = "no_device"
          => /\ bpc \in {"failed", "returned"}
             /\ n >= 2
             /\ ScansLog[n].ok /\ ScansLog[n].res = {}
             /\ ScansLog[n - 1].ok /\ ScansLog[n - 1].res # {}
             /\ i2c = Len(Opens)
             /\ <<ScansLog[n].bus, ScansLog[n].freq>> = ProbeOrder[i2c]
             /\ <<ScansLog[n - 1].bus, ScansLog[n - 1].freq>>
                   = ProbeOrder[i2c]
             /\ n = Len(SelectSeq(Opens, LAMBDA e : e.ok)) + 1

\* the first candidate scanned empty, the second answered, and the scan of
\* _detect_imu on it found nothing: the no-accelerometer error
C38_Witness ==
    /\ error = "no_device" /\ bpc = "returned"
    /\ i2c = 2 /\ Len(ScansLog) = 3
    /\ ScansLog[1].ok /\ ScansLog[1].res = {}
    /\ ScansLog[2].res = {BNO055_ADDR}

TypeOK ==
    /\ now \in 0..(TicksPeriod - 1)
    /\ burst \in {"fresh", "none", "silent", "reported"}
    /\ pin \in [Buttons -> {0, 1}]
    /\ last_state \in [Buttons -> {0, 1}]
    /\ last_time \in [Buttons -> 0..(TicksPeriod - 1)]
    /\ irq_enabled \in BOOLEAN
    /\ handlers \subseteq Buttons
    /\ pc \in {"idle", "pin", "clock", "cmp", "wstate", "wtime"}
    /\ bpc \in {"new", "open", "settle", "scan", "detect", "failed", "ready",
               "bno_poll", "bno_last", "bno_write", "mpu_init", "lsm_init",
               "built", "returned"}
    /\ imu_type \in {"", "bno055", "mpu6050", "lsm6ds3"}
    /\ addr \in {0, BNO055_ADDR, BNO055_ADDR_ALT, MPU6050_ADDR,
                  MPU6050_ADDR_ALT, LSM6DS3_ADDR}
    /\ bno.timeout \in 0..ChipIdTimeoutMs
    /\ bno.writes \in 0..Len(BnoWrites)
    /\ error \in {"", "no_bus", "no_device", "unknown_device",
                   "not_responding", "wrong_chip_id", "io"}
    /\ handle \in {"none", "object"}
    /\ attempt \in 1..MaxAttempts
    /\ cand \in 0..Len(Candidates)
    /\ i2c \in 0..Len(Candidates)
    /\ shake_threshold \in Thresholds \cup {0}
    /\ shake_detected = FALSE
    /\ last_shake_time \in 0..(TicksPeriod - 1)
    /\ loop.pc \in {"off", "poll", "sleep", "raised"}
====
